---- MODULE Spec2Model ----
(***************************************************************************)
(* Model of weboob's Selenium browser substrate                            *)
(* (src/weboob/browser/selenium.py): the condition combinators, the page   *)
(* resolver of SeleniumBrowser and its wait_until / save_response pair.    *)
(*                                                                         *)
(* A Python call either returns a value or raises.  The outcome of a       *)
(* condition call is modelled as a string: "True" or "False" for a         *)
(* returned boolean, or the name of the exception class that was raised.   *)
(***************************************************************************)
EXTENDS Integers, Sequences, FiniteSets

VARIABLES
    \* ---- condition engine ----
    condition,          \* the condition object under evaluation
    value,              \* outcome of the last condition(driver) call, "none" before it
    called,             \* how many of condition.conditions that call evaluated
    \* ---- page resolver ----
    _urls,              \* SeleniumBrowser._urls
    url,                \* driver.current_url
    page,               \* outcome of the last evaluation of SeleniumBrowser.page
    is_here_calls,      \* the is_here evaluations that evaluation made, in order
    \* ---- poller and response dumps ----
    responses_dirname,  \* SeleniumBrowser.responses_dirname
    dir_exists,         \* whether that directory exists on disk
    responses_count,    \* SeleniumBrowser.responses_count
    files,              \* paths written so far, in order of writing
    wait,               \* the wait_until call in progress, or its outcome
    \* ---- StablePageCondition ----
    elements,           \* StablePageCondition.elements: root id -> (time, hash)
    waiting,            \* StablePageCondition.waiting
    now,                \* time.time()
    tick,               \* the last call of the condition and what it returned
    \* ---- CAPTCHA jobs ----
    question,           \* the exception handed to exception_to_job
    conversion,         \* how that exception_to_job call ended
    job,                \* the SolverJob
    solving,            \* the last solve_catpcha_blocking call on it
    \* ---- virtual keypad ----
    buttons,            \* the buttons of the keypad page
    md5,                \* BoursoramaVirtKeyboard.md5
    password,           \* the argument of the last get_code call
    code,               \* how that call ended
    \* ---- locator conditions ----
    built,              \* the conditions built so far, with the xpath given
    \* ---- implicit wait ----
    implicit_timeout,   \* SeleniumBrowser.implicit_timeout
    driver_wait,        \* the implicit wait in force in the driver
    blocks,             \* the open implicit_wait blocks, innermost last
    \* ---- sessions of one browser class ----
    heap,               \* the URL objects, by identity
    cls_urls,           \* the URL attributes of the class
    browsers,           \* the sessions constructed from the class
    \* ---- login flows ----
    config,             \* the backend configuration
    browser,            \* the fields of the login browser
    requests,           \* the requests the last call sent, in order
    login               \* the last call and how it ended

condVars == <<condition, value, called>>
pageVars == <<_urls, url, page, is_here_calls>>
waitVars == <<responses_dirname, dir_exists, responses_count, files, wait>>
stableVars == <<elements, waiting, now, tick>>
captchaVars == <<question, conversion, job, solving>>
keypadVars == <<buttons, md5, password, code>>
locatorVars == <<built>>
implicitVars == <<implicit_timeout, driver_wait, blocks>>
sessionVars == <<heap, cls_urls, browsers>>
authVars == <<config, browser, requests, login>>
vars == <<condition, value, called, _urls, url, page, is_here_calls,
          responses_dirname, dir_exists, responses_count, files, wait,
          elements, waiting, now, tick, question, conversion, job, solving,
          buttons, md5, password, code, built, implicit_timeout, driver_wait,
          blocks, heap, cls_urls, browsers, config, browser, requests, login>>

(***************************************************************************)
(* Bounds of the model.                                                    *)
(***************************************************************************)
MaxKids == 2
MaxDepth == 2
MaxUrls == 3
MaxPolls == 3
MaxResponses == 3

(***************************************************************************)
(* Outcomes.                                                               *)
(***************************************************************************)
NoSuchElementException == "NoSuchElementException"
TimeoutException == "TimeoutException"
\* failures a condition may raise besides the whitelisted one
OtherFailures == {"StaleElementReferenceException", "NotImplementedError"}
Booleans == {"True", "False"}
Outcomes == Booleans \cup {NoSuchElementException} \cup OtherFailures

IsRaise(v) == v \notin Booleans

(***************************************************************************)
(* Condition objects.  A leaf is any callable condition (a CustomCondition *)
(* subclass or a selenium expected_condition) of which only the outcome    *)
(* against the current driver state matters.                               *)
(***************************************************************************)
CustomCondition(out) == [op |-> "leaf", out |-> out, conditions |-> <<>>]

WrapException(c) == [op |-> "wrap", out |-> "none", conditions |-> <<c>>]

AnyCondition(cs) ==
    [op |-> "any", out |-> "none",
     conditions |-> [i \in 1..Len(cs) |-> WrapException(cs[i])]]

AllCondition(cs) ==
    [op |-> "all", out |-> "none",
     conditions |-> [i \in 1..Len(cs) |-> WrapException(cs[i])]]

NotCondition(c) == [op |-> "not", out |-> "none", conditions |-> <<WrapException(c)>>]

(***************************************************************************)
(* Python's any() and all() over a generator: the generator is consumed    *)
(* one element at a time, each element being one child call; n is the      *)
(* number of elements consumed.                                            *)
(***************************************************************************)
RECURSIVE Call(_)
RECURSIVE any(_, _)
RECURSIVE all(_, _)

\* mutant: any([cb(driver) for cb in ...]), every child called before any() looks
RECURSIVE any_of_list(_, _)
any_of_list(cs, i) ==
    IF i > Len(cs) THEN [v |-> "False", n |-> Len(cs)]
    ELSE LET r == Call(cs[i])
             rest == any_of_list(cs, i + 1)
         IN
         IF IsRaise(r) THEN [v |-> r, n |-> i]
         ELSE IF IsRaise(rest.v) THEN rest
         ELSE [v |-> IF r = "True" THEN "True" ELSE rest.v, n |-> Len(cs)]

any(cs, i) ==
    IF i > Len(cs) THEN [v |-> "False", n |-> Len(cs)]
    ELSE LET r == Call(cs[i]) IN
         IF r = "False" THEN any(cs, i + 1)
         ELSE [v |-> r, n |-> i]

\* mutant: AllCondition written with any()
all_written_any(cs, i) == any(cs, i)

all(cs, i) ==
    IF i > Len(cs) THEN [v |-> "True", n |-> Len(cs)]
    ELSE LET r == Call(cs[i]) IN
         IF r = "True" THEN all(cs, i + 1)
         ELSE [v |-> r, n |-> i]

\* mutant: a bare except, every failure turned into False
WrapException_call_catch_all(c) ==
    LET r == Call(c.conditions[1]) IN
    IF IsRaise(r) THEN "False" ELSE r

\* mutant: no except clause
WrapException_call_no_catch(c) == Call(c.conditions[1])

WrapException_call(c) ==
    LET r == Call(c.conditions[1]) IN
    IF r = NoSuchElementException THEN "False" ELSE r

AnyCondition_call(c) == any(c.conditions, 1)

AllCondition_call(c) == all(c.conditions, 1)

\* mutant: the condition negated without its WrapException
NotCondition_call_unwrapped(c) ==
    LET r == Call(c.conditions[1].conditions[1]) IN
    IF r = "True" THEN "False" ELSE IF r = "False" THEN "True" ELSE r

NotCondition_call(c) ==
    LET r == Call(c.conditions[1]) IN
    IF r = "True" THEN "False" ELSE IF r = "False" THEN "True" ELSE r

Call(c) ==
    CASE c.op = "leaf" -> c.out
      [] c.op = "wrap" -> WrapException_call(c)
      [] c.op = "any"  -> AnyCondition_call(c).v
      [] c.op = "all"  -> AllCondition_call(c).v
      [] c.op = "not"  -> NotCondition_call(c)

\* number of self.conditions a call of c evaluates
Called(c) ==
    CASE c.op = "any" -> AnyCondition_call(c).n
      [] c.op = "all" -> AllCondition_call(c).n
      [] c.op \in {"wrap", "not"} -> 1
      [] c.op = "leaf" -> 0

\* nesting depth of the combinators, the WrapException a combinator puts
\* around each of its arguments not counted
RECURSIVE Depth(_)
RECURSIVE MaxOver(_, _)
MaxOver(cs, i) ==
    IF i > Len(cs) THEN 0
    ELSE LET d == Depth(cs[i].conditions[1])
             m == MaxOver(cs, i + 1)
         IN IF d > m THEN d ELSE m
Depth(c) ==
    CASE c.op = "leaf" -> 0
      [] c.op = "wrap" -> 1 + Depth(c.conditions[1])
      [] OTHER -> 1 + MaxOver(c.conditions, 1)

Leaves == {CustomCondition(o) : o \in Outcomes}
SeqsUpTo(S, n) == UNION {[1..k -> S] : k \in 0..n}

(***************************************************************************)
(* The condition engine as a state machine: a test harness builds a        *)
(* condition with the constructors and calls it once.                      *)
(***************************************************************************)
FlatConditions ==
    Leaves
    \cup {WrapException(l) : l \in Leaves}
    \cup {NotCondition(l) : l \in Leaves}
    \cup {AnyCondition(cs) : cs \in SeqsUpTo(Leaves, MaxKids)}
    \cup {AllCondition(cs) : cs \in SeqsUpTo(Leaves, MaxKids)}

\* argument lists that nest c: alone, or beside one plain boolean leaf
BoolLeaves == {CustomCondition(o) : o \in Booleans}
ArgsWith(c) ==
    {<<c>>} \cup {<<c, l>> : l \in BoolLeaves} \cup {<<l, c>> : l \in BoolLeaves}

Evaluate ==
    /\ value = "none"
    /\ value' = Call(condition)
    /\ called' = Called(condition)
    /\ UNCHANGED <<condition, pageVars, waitVars, stableVars, captchaVars, keypadVars, locatorVars, implicitVars, sessionVars, authVars>>

Rebuild(c) ==
    /\ Depth(condition) < MaxDepth
    /\ condition' = c
    /\ value' = "none"
    /\ called' = 0
    /\ UNCHANGED <<pageVars, waitVars, stableVars, captchaVars, keypadVars, locatorVars, implicitVars, sessionVars, authVars>>

NewWrapException == Rebuild(WrapException(condition))
NewNotCondition == Rebuild(NotCondition(condition))
NewAnyCondition == \E cs \in ArgsWith(condition) : Rebuild(AnyCondition(cs))
NewAllCondition == \E cs \in ArgsWith(condition) : Rebuild(AllCondition(cs))

CondNext ==
    \/ Evaluate
    \/ NewWrapException
    \/ NewNotCondition
    \/ NewAnyCondition
    \/ NewAllCondition

(***************************************************************************)
(* URL registry.  A URL object binds a match expression to a page class    *)
(* and carries the _creation_counter it got when it was constructed.  The  *)
(* match expression is represented by the set of locations it matches.     *)
(* Page classes are named by the creation counter of their URL.            *)
(***************************************************************************)
Locations == {"/login", "/accounts"}
Klasses == 1..MaxUrls

URL(regex, klass, counter) ==
    [regex |-> regex, klass |-> klass, _creation_counter |-> counter]

URL_match(val, location) == location \in val.regex

Range(s) == {s[i] : i \in 1..Len(s)}

\* mutant: __init__ without the sort, _urls left in dir(cls) order
sort_omitted(us) == us

\* list.sort(key=lambda u: u._creation_counter); the counters are distinct
sort(us) ==
    [i \in 1..Len(us) |->
        CHOOSE u \in Range(us) :
            Cardinality({w \in Range(us) :
                w._creation_counter < u._creation_counter}) = i - 1]

\* the URL attributes of the browser class in the order dir(cls) lists them
\* (by attribute name), whatever the order they were created in
ClassAttributes ==
    {us \in [1..MaxUrls -> {URL(r, k, k) : r \in SUBSET Locations, k \in Klasses}] :
        \A i, j \in 1..MaxUrls : i # j => us[i].klass # us[j].klass}

SeleniumBrowser_init_urls(attrs) == sort(attrs)

\* whether the page class declares is_here as a CustomCondition instance
\* rather than as a method
IsCustomCondition(klass) == klass % 2 = 0

IsHereOutcomes == Outcomes

NotEvaluated == [kind |-> "unevaluated", klass |-> 0, exc |-> "none"]
ReturnNone == [kind |-> "None", klass |-> 0, exc |-> "none"]
ReturnPage(klass) == [kind |-> "page", klass |-> klass, exc |-> "none"]
Raise(exc) == [kind |-> "raise", klass |-> 0, exc |-> exc]

(***************************************************************************)
(* SeleniumBrowser.page.  here[k] is what is_here of page class k yields   *)
(* against the document the driver currently shows.  One resolution is     *)
(* taken against one location: the driver's current_url as it stands       *)
(* while the property is read; UrlChanges moves it between two readings.   *)
(***************************************************************************)
RECURSIVE page_loop(_, _, _, _, _)
RECURSIVE page_loop_first_match_only(_, _, _, _, _)
RECURSIVE page_loop_is_here_ignored(_, _, _, _, _)
RECURSIVE page_loop_absent_swallows_all(_, _, _, _, _)

\* mutant: the loop gives up after the first matching pattern
page_loop_first_match_only(urls, location, here, i, calls) ==
    IF i > Len(urls) THEN [result |-> ReturnNone, calls |-> calls]
    ELSE LET val == urls[i] IN
         IF ~URL_match(val, location)
         THEN page_loop_first_match_only(urls, location, here, i + 1, calls)
         ELSE LET o == here[val.klass]
                  made == Append(calls,
                             [klass |-> val.klass,
                              custom |-> IsCustomCondition(val.klass),
                              out |-> o])
              IN
              IF o = "True" THEN [result |-> ReturnPage(val.klass), calls |-> made]
              ELSE IF o \in {"False", NoSuchElementException}
                   THEN [result |-> ReturnNone, calls |-> made]
              ELSE [result |-> Raise(o), calls |-> made]

\* mutant: the page is returned whatever boolean is_here returns
page_loop_is_here_ignored(urls, location, here, i, calls) ==
    IF i > Len(urls) THEN [result |-> ReturnNone, calls |-> calls]
    ELSE LET val == urls[i] IN
         IF ~URL_match(val, location)
         THEN page_loop_is_here_ignored(urls, location, here, i + 1, calls)
         ELSE LET o == here[val.klass]
                  made == Append(calls,
                             [klass |-> val.klass,
                              custom |-> IsCustomCondition(val.klass),
                              out |-> o])
              IN
              IF o \in Booleans THEN [result |-> ReturnPage(val.klass), calls |-> made]
              ELSE IF o = NoSuchElementException
                   THEN page_loop_is_here_ignored(urls, location, here, i + 1, made)
              ELSE [result |-> Raise(o), calls |-> made]

\* mutant: every failure of is_here is taken as "not this page"
page_loop_absent_swallows_all(urls, location, here, i, calls) ==
    IF i > Len(urls) THEN [result |-> ReturnNone, calls |-> calls]
    ELSE LET val == urls[i] IN
         IF ~URL_match(val, location)
         THEN page_loop_absent_swallows_all(urls, location, here, i + 1, calls)
         ELSE LET o == here[val.klass]
                  made == Append(calls,
                             [klass |-> val.klass,
                              custom |-> IsCustomCondition(val.klass),
                              out |-> o])
              IN
              IF o = "True" THEN [result |-> ReturnPage(val.klass), calls |-> made]
              ELSE page_loop_absent_swallows_all(urls, location, here, i + 1, made)

page_loop(urls, location, here, i, calls) ==
    IF i > Len(urls) THEN [result |-> ReturnNone, calls |-> calls]
    ELSE LET val == urls[i] IN
         IF ~URL_match(val, location) THEN page_loop(urls, location, here, i + 1, calls)
         ELSE LET o == here[val.klass]
                  made == Append(calls,
                             [klass |-> val.klass,
                              custom |-> IsCustomCondition(val.klass),
                              out |-> o])
              IN
              IF o = "True" THEN [result |-> ReturnPage(val.klass), calls |-> made]
              ELSE IF o \in {"False", NoSuchElementException}
                   THEN page_loop(urls, location, here, i + 1, made)
              ELSE [result |-> Raise(o), calls |-> made]

SeleniumBrowser_page(urls, location, here) == page_loop(urls, location, here, 1, <<>>)

\* the page classes the resolver can instantiate at a location
Matching(urls, location) ==
    {urls[i].klass : i \in {j \in 1..Len(urls) : URL_match(urls[j], location)}}

\* reading the page property
Page ==
    \E here \in [Matching(_urls, url) -> IsHereOutcomes] :
        LET r == SeleniumBrowser_page(_urls, url, here) IN
        /\ page' = r.result
        /\ is_here_calls' = r.calls
        /\ UNCHANGED <<_urls, url, condVars, waitVars, stableVars, captchaVars, keypadVars, locatorVars, implicitVars, sessionVars, authVars>>

\* location(url): driver.get, then FakeResponse(page=self.page)
Location ==
    \E l \in Locations : \E here \in [Matching(_urls, l) -> IsHereOutcomes] :
        LET r == SeleniumBrowser_page(_urls, l, here) IN
        /\ url' = l
        /\ page' = r.result
        /\ is_here_calls' = r.calls
        /\ UNCHANGED <<_urls, condVars, waitVars, stableVars, captchaVars, keypadVars, locatorVars, implicitVars, sessionVars, authVars>>

\* scripts of the remote document change driver.current_url at any time
UrlChanges ==
    /\ \E l \in Locations \ {url} : url' = l
    /\ page' = NotEvaluated
    /\ is_here_calls' = <<>>
    /\ UNCHANGED <<_urls, condVars, waitVars, stableVars, captchaVars, keypadVars, locatorVars, implicitVars, sessionVars, authVars>>

PageNext ==
    \/ Page
    \/ Location
    \/ UrlChanges

(***************************************************************************)
(* Response dumps.  None is the unconfigured responses_dirname.  A path    *)
(* '%s/%02d.ext' is its extension and the digits '%02d' prints.            *)
(***************************************************************************)
None == "None"
Dirnames == {None, "responses"}

RECURSIVE Digits(_)
Digits(n) == IF n < 10 THEN <<n>> ELSE Append(Digits(n \div 10), n % 10)

\* '%02d' % n
Format02d(n) == IF n < 10 THEN <<0, n>> ELSE Digits(n)

Path(ext, n) == [ext |-> ext, number |-> Format02d(n)]

\* mutant: the dump is written without counting it
save_response_not_counted(st) ==
    IF st.dirname # None
    THEN [st EXCEPT !.isdir = TRUE,
                    !.files = Append(st.files, Path("html", st.count + 1))]
    ELSE st

\* save_response on the session state st = [dirname, isdir, count, files]
save_response(st) ==
    IF st.dirname # None
    THEN [st EXCEPT !.isdir = TRUE,
                    !.count = st.count + 1,
                    !.files = Append(st.files, Path("html", st.count + 1))]
    ELSE st

\* driver.get_screenshot_as_file(path): the file is written unless opening it
\* fails, which it does while the directory is missing; it never raises
get_screenshot_as_file(st) ==
    IF st.isdir
    THEN [st EXCEPT !.files = Append(st.files, Path("png", st.count))]
    ELSE st

(***************************************************************************)
(* WebDriverWait(driver, timeout).until(condition): polls[i] is what the   *)
(* condition yields at the i-th poll; polls holds the polls that fit in    *)
(* the timeout.  NoSuchElementException is the wait's ignored exception.   *)
(***************************************************************************)
RECURSIVE until(_, _)
until(polls, i) ==
    IF i > Len(polls) THEN Raise(TimeoutException)
    ELSE IF polls[i] = "True" THEN [kind |-> "return", klass |-> 0, exc |-> "none"]
    ELSE IF polls[i] \in {"False", NoSuchElementException} THEN until(polls, i + 1)
    ELSE Raise(polls[i])

\* mutant: the except clause re-raises without saving anything
wait_until_nothing_saved(st, polls) == [outcome |-> until(polls, 1), st |-> st]

\* wait_until: the outcome of the call and the session state it leaves
wait_until(st, polls) ==
    LET r == until(polls, 1) IN
    IF r.kind = "raise" /\ r.exc \in {NoSuchElementException, TimeoutException}
    THEN [outcome |-> r,
          st |-> save_response(IF st.dirname # None
                               THEN get_screenshot_as_file(st) ELSE st)]
    ELSE [outcome |-> r, st |-> st]

Session ==
    [dirname |-> responses_dirname, isdir |-> dir_exists,
     count |-> responses_count, files |-> files]

\* wait records the last wait_until call: its outcome, the polls it was given,
\* and the number of files and the state of the directory it started from
Idle == [kind |-> "idle", exc |-> "none", polls |-> <<>>, before |-> 0, isdir |-> FALSE]

Becomes(st) ==
    /\ st.count <= MaxResponses
    /\ dir_exists' = st.isdir
    /\ responses_count' = st.count
    /\ files' = st.files
    /\ UNCHANGED <<responses_dirname, condVars, pageVars, stableVars, captchaVars, keypadVars, locatorVars, implicitVars, sessionVars, authVars>>

PollOutcomes == Booleans \cup {NoSuchElementException, "StaleElementReferenceException"}

WaitUntil ==
    \E polls \in SeqsUpTo(PollOutcomes, MaxPolls) \ {<<>>} :
        LET r == wait_until(Session, polls) IN
        /\ Becomes(r.st)
        /\ wait' = [kind |-> r.outcome.kind, exc |-> r.outcome.exc,
                    polls |-> polls, before |-> Len(files), isdir |-> dir_exists]

SaveResponse ==
    /\ Becomes(save_response(Session))
    /\ wait' = Idle

WaitNext ==
    \/ WaitUntil
    \/ SaveResponse

(***************************************************************************)
(* StablePageCondition (src/weboob/browser/selenium.py).  A call of the    *)
(* condition (a tick) reads the clock once: time is counted in whole       *)
(* seconds and the two time.time() reads of one call give the same value.  *)
(* elements maps a root id to <<time recorded, hash recorded>>.            *)
(***************************************************************************)
MaxWaiting == 1

purge_times == 10

Roots == {"root-1", "root-2"}
Hashes == {"md5-a", "md5-b"}

\* the latest time a run is followed to: just past one purge period
MaxTime(w) == purge_times * w + 1

\* the clock advances between two ticks
Delays(w) == {0, 1, w, purge_times * w}

\* mutant: nothing is ever purged
_purge_omitted(els, w, t) == els

\* mutant: entries are kept one second longer
_purge_lenient(els, w, t) ==
    [k \in {k \in DOMAIN els : ~(t - els[k][1] > purge_times * w + 1)} |-> els[k]]

_purge(els, w, t) ==
    [k \in {k \in DOMAIN els : ~(t - els[k][1] > purge_times * w)} |-> els[k]]

\* mutant: the recorded hash is not compared
StablePageCondition_call_hash_ignored(els, w, t, page_id, hashed) ==
    LET purged == _purge(els, w, t) IN
    IF page_id \notin DOMAIN purged
    THEN [elements |-> [k \in DOMAIN purged \cup {page_id} |->
                            IF k = page_id THEN <<t, hashed>> ELSE purged[k]],
          result |-> "False"]
    ELSE IF t - purged[page_id][1] < w
    THEN [elements |-> purged, result |-> "False"]
    ELSE [elements |-> purged, result |-> "True"]

\* StablePageCondition.__call__ at time t, the driver showing root page_id
\* whose source hashes to hashed
StablePageCondition_call(els, w, t, page_id, hashed) ==
    LET purged == _purge(els, w, t) IN
    IF page_id \notin DOMAIN purged \/ purged[page_id][2] # hashed
    THEN [elements |-> [k \in DOMAIN purged \cup {page_id} |->
                            IF k = page_id THEN <<t, hashed>> ELSE purged[k]],
          result |-> "False"]
    ELSE IF t - purged[page_id][1] < w
    THEN [elements |-> purged, result |-> "False"]
    ELSE [elements |-> purged, result |-> "True"]

\* tick records the last call: the root and hash it observed, its result,
\* and (history) the time each root was last observed, whether every call so
\* far observed the same root with the same hash, and if so the time of the
\* first call
NoTick ==
    [root |-> "none", hash |-> "none", result |-> "none",
     seen |-> <<>>, steady |-> TRUE, first |-> 0]

Tick ==
    /\ \E dt \in Delays(waiting), page_id \in Roots, hashed \in Hashes :
        LET t == now + dt
            r == StablePageCondition_call(elements, waiting, t, page_id, hashed)
            steady == \/ tick = NoTick
                      \/ tick.steady /\ tick.root = page_id /\ tick.hash = hashed
        IN
        /\ t <= MaxTime(waiting)
        /\ now' = t
        /\ elements' = r.elements
        /\ tick' = [root |-> page_id, hash |-> hashed, result |-> r.result,
                    seen |-> [k \in DOMAIN tick.seen \cup {page_id} |->
                                 IF k = page_id THEN t ELSE tick.seen[k]],
                    steady |-> steady,
                    first |-> IF tick = NoTick THEN t
                              ELSE IF steady THEN tick.first ELSE 0]
    /\ UNCHANGED <<waiting, condVars, pageVars, waitVars, captchaVars, keypadVars, locatorVars, implicitVars, sessionVars, authVars>>

StableNext ==
    \/ Tick

(***************************************************************************)
(* CAPTCHA jobs (src/weboob/capabilities/captcha.py).  NotLoaded is the    *)
(* value of a field that was never set.                                    *)
(***************************************************************************)
RETRIES == 30

NotLoaded == "NotLoaded"

\* the exception classes and their base classes (src/weboob/exceptions.py)
\* mutant: the authentication errors derive from Exception directly
Base_auth_errors_unrelated(cls) ==
    CASE cls \in {"RecaptchaQuestion", "NocaptchaQuestion", "ImageCaptchaQuestion"}
            -> "CaptchaQuestion"
      [] OTHER -> "Exception"

Base(cls) ==
    CASE cls \in {"RecaptchaQuestion", "NocaptchaQuestion", "ImageCaptchaQuestion"}
            -> "CaptchaQuestion"
      [] cls \in {"BrowserQuestion", "BrowserBanned", "BrowserAuthenticationCodeMaxLimit"}
            -> "BrowserIncorrectPassword"
      [] OTHER -> "Exception"

isinstance(exc, cls) ==
    cls \in {exc.class, Base(exc.class), Base(Base(exc.class))}

SiteUrls == {"https://a.example/", "https://b.example/"}
SiteKeys == {"key-a", "key-b"}
Images == {"png-a", "png-b"}

RecaptchaQuestion(website_key, website_url) ==
    [class |-> "RecaptchaQuestion", type |-> "g_recaptcha",
     website_key |-> website_key, website_url |-> website_url, image_data |-> None]

NocaptchaQuestion(website_key, website_url) ==
    [class |-> "NocaptchaQuestion", type |-> "g_recaptcha",
     website_key |-> website_key, website_url |-> website_url, image_data |-> None]

ImageCaptchaQuestion(image_data) ==
    [class |-> "ImageCaptchaQuestion", type |-> "image_captcha",
     website_key |-> None, website_url |-> None, image_data |-> image_data]

\* exceptions that are no question of the three kinds
OtherException(cls) ==
    [class |-> cls, type |-> None,
     website_key |-> None, website_url |-> None, image_data |-> None]

Questions ==
    {RecaptchaQuestion(k, u) : k \in SiteKeys, u \in SiteUrls}
    \cup {NocaptchaQuestion(k, u) : k \in SiteKeys, u \in SiteUrls}
    \cup {ImageCaptchaQuestion(i) : i \in Images}
    \cup {OtherException(c) : c \in {"CaptchaQuestion", "BrowserQuestion"}}

NoQuestion == OtherException("none")

SolverJob(cls) ==
    [class |-> cls, id |-> NotLoaded, solution |-> NotLoaded,
     site_url |-> NotLoaded, site_key |-> NotLoaded, image |-> NotLoaded]

NoJob == SolverJob("none")

\* mutant: site_url and site_key filled from the wrong attributes
exception_to_job_swapped(exc) ==
    IF isinstance(exc, "RecaptchaQuestion")
    THEN [raised |-> "none",
          job |-> [SolverJob("RecaptchaJob") EXCEPT !.site_url = exc.website_key,
                                                    !.site_key = exc.website_url]]
    ELSE IF isinstance(exc, "NocaptchaQuestion")
    THEN [raised |-> "none",
          job |-> [SolverJob("NocaptchaJob") EXCEPT !.site_url = exc.website_key,
                                                    !.site_key = exc.website_url]]
    ELSE IF isinstance(exc, "ImageCaptchaQuestion")
    THEN [raised |-> "none",
          job |-> [SolverJob("ImageCaptchaJob") EXCEPT !.image = exc.image_data]]
    ELSE [raised |-> "NotImplementedError", job |-> NoJob]

exception_to_job(exc) ==
    IF isinstance(exc, "RecaptchaQuestion")
    THEN [raised |-> "none",
          job |-> [SolverJob("RecaptchaJob") EXCEPT !.site_url = exc.website_url,
                                                    !.site_key = exc.website_key]]
    ELSE IF isinstance(exc, "NocaptchaQuestion")
    THEN [raised |-> "none",
          job |-> [SolverJob("NocaptchaJob") EXCEPT !.site_url = exc.website_url,
                                                    !.site_key = exc.website_key]]
    ELSE IF isinstance(exc, "ImageCaptchaQuestion")
    THEN [raised |-> "none",
          job |-> [SolverJob("ImageCaptchaJob") EXCEPT !.image = exc.image_data]]
    ELSE [raised |-> "NotImplementedError", job |-> NoJob]

(***************************************************************************)
(* The solver behind create_job and poll_job is described by a script:     *)
(* how create_job ends, the number of polls it answers "pending" (False),  *)
(* and how the poll after those ends.                                      *)
(***************************************************************************)
\* CaptchaError and its subclasses
CaptchaErrors == {"CaptchaError", "InvalidCaptcha", "UnsolvableCaptcha", "InsufficientFunds"}

Scripts ==
    [create : {"ok", "NotImplementedError"} \cup CaptchaErrors,
     pending : 0..(RETRIES + 1),
     then : {"solved"} \cup CaptchaErrors]

\* poll_job of the scripted solver at its i-th call
poll_job(script, i) == IF i <= script.pending THEN "False" ELSE script.then

NotStarted ==
    [state |-> "none", exc |-> "none", value |-> None, log |-> <<>>,
     script |-> [create |-> "ok", pending |-> 0, then |-> "solved"]]

\* for i in range(self.RETRIES): sleep; if self.poll_job(job): return job
\* i counts the polls already made
RECURSIVE poll_loop(_, _, _, _)
RECURSIVE poll_loop_one_more(_, _, _, _)
RECURSIVE poll_loop_one_fewer(_, _, _, _)

\* mutant: range(self.RETRIES + 1)
poll_loop_one_more(script, j, i, log) ==
    IF i >= RETRIES + 1
    THEN [state |-> "returned", exc |-> "none", value |-> None, log |-> log, job |-> j]
    ELSE LET r == poll_job(script, i + 1)
             made == Append(log, "poll_job")
         IN
         IF r = "False" THEN poll_loop_one_more(script, j, i + 1, made)
         ELSE IF r = "solved"
         THEN [state |-> "returned", exc |-> "none", value |-> "job", log |-> made,
               job |-> [j EXCEPT !.solution = "solution"]]
         ELSE [state |-> "raised", exc |-> r, value |-> None, log |-> made, job |-> j]

RECURSIVE poll_loop_retries_on_error(_, _, _, _)

\* mutant: a poll that raises is tried again
poll_loop_retries_on_error(script, j, i, log) ==
    IF i >= RETRIES
    THEN [state |-> "returned", exc |-> "none", value |-> None, log |-> log, job |-> j]
    ELSE LET r == poll_job(script, i + 1)
             made == Append(log, "poll_job")
         IN
         IF r = "solved"
         THEN [state |-> "returned", exc |-> "none", value |-> "job", log |-> made,
               job |-> [j EXCEPT !.solution = "solution"]]
         ELSE poll_loop_retries_on_error(script, j, i + 1, made)

\* mutant: range(self.RETRIES - 1)
poll_loop_one_fewer(script, j, i, log) ==
    IF i >= RETRIES - 1
    THEN [state |-> "returned", exc |-> "none", value |-> None, log |-> log, job |-> j]
    ELSE LET r == poll_job(script, i + 1)
             made == Append(log, "poll_job")
         IN
         IF r = "False" THEN poll_loop_one_fewer(script, j, i + 1, made)
         ELSE IF r = "solved"
         THEN [state |-> "returned", exc |-> "none", value |-> "job", log |-> made,
               job |-> [j EXCEPT !.solution = "solution"]]
         ELSE [state |-> "raised", exc |-> r, value |-> None, log |-> made, job |-> j]

poll_loop(script, j, i, log) ==
    IF i >= RETRIES
    THEN [state |-> "returned", exc |-> "none", value |-> None, log |-> log, job |-> j]
    ELSE LET r == poll_job(script, i + 1)
             made == Append(log, "poll_job")
         IN
         IF r = "False" THEN poll_loop(script, j, i + 1, made)
         ELSE IF r = "solved"
         THEN [state |-> "returned", exc |-> "none", value |-> "job", log |-> made,
               job |-> [j EXCEPT !.solution = "solution"]]
         ELSE [state |-> "raised", exc |-> r, value |-> None, log |-> made, job |-> j]

\* solve_catpcha_blocking(job) against the scripted solver
solve_catpcha_blocking(script, j) ==
    IF script.create # "ok"
    THEN [state |-> "raised", exc |-> script.create, value |-> None,
          log |-> <<"create_job">>, job |-> j]
    ELSE poll_loop(script, [j EXCEPT !.id = "job-id"], 0, <<"create_job">>)

ExceptionToJob ==
    \E exc \in Questions :
        LET r == exception_to_job(exc) IN
        /\ question' = exc
        /\ conversion' = (IF r.raised = "none" THEN "returned" ELSE r.raised)
        /\ job' = r.job
        /\ solving' = NotStarted
        /\ UNCHANGED <<condVars, pageVars, waitVars, stableVars, keypadVars, locatorVars, implicitVars, sessionVars, authVars>>

SolveCaptchaBlocking ==
    /\ job # NoJob
    /\ solving.state = "none"
    /\ \E script \in Scripts :
        LET r == solve_catpcha_blocking(script, job) IN
        /\ job' = r.job
        /\ solving' = [state |-> r.state, exc |-> r.exc, value |-> r.value,
                       log |-> r.log, script |-> script]
    /\ UNCHANGED <<question, conversion, condVars, pageVars, waitVars, stableVars, keypadVars, locatorVars, implicitVars, sessionVars, authVars>>

CaptchaNext ==
    \/ ExceptionToJob
    \/ SolveCaptchaBlocking

(***************************************************************************)
(* Virtual keypad (src/modules/boursorama/pages.py).  A button of the      *)
(* keypad page is its data-matrix-key and the box get_symbol_coords finds  *)
(* in its image (its fingerprint).  A code is the sequence of the pieces   *)
(* concatenated into the string.                                           *)
(***************************************************************************)
MaxButtons == 3
MaxDigit == 2
MaxPassword == 2

symbols ==
    [d \in {"0", "1", "2", "3", "4", "5", "6", "7", "8", "9"} |->
        CASE d = "0" -> <<17, 7, 24, 17>>
          [] d = "1" -> <<18, 6, 21, 18>>
          [] d = "2" -> <<9, 7, 32, 34>>
          [] d = "3" -> <<10, 7, 31, 34>>
          [] d = "4" -> <<11, 6, 29, 34>>
          [] d = "5" -> <<14, 6, 28, 34>>
          [] d = "6" -> <<7, 7, 34, 34>>
          [] d = "7" -> <<5, 6, 36, 34>>
          [] d = "8" -> <<8, 7, 32, 34>>
          [] d = "9" -> <<4, 7, 38, 34>>]

\* what get_symbol_coords gives for an image without a symbol
Blank == <<-1, -1, -1, -1>>

\* the box of a drawing that is none of the registered digits
Unregistered == <<3, 3, 39, 39>>

DigitChars == <<"0", "1", "2", "3", "4", "5", "6", "7", "8", "9">>

\* the digits a button of the modelled keypads can show
ShownDigits == {DigitChars[i + 1] : i \in 0..MaxDigit}

Fingerprints == {symbols[d] : d \in ShownDigits} \cup {Unregistered, Blank}

\* data-matrix-key of the i-th button of the page
MatrixKeys == <<"KEY-A", "KEY-B", "KEY-C", "KEY-D", "KEY-E", "KEY-F">>

Button(i, coord) == [key |-> MatrixKeys[i], coord |-> coord]

\* the keypad pages: any fingerprint at any place
Layouts ==
    UNION {{[i \in 1..n |-> Button(i, f[i])] : f \in [1..n -> Fingerprints]}
           : n \in 0..MaxButtons}

\* the passwords typed: shown digits and a character that is no symbol
Passwords == SeqsUpTo(ShownDigits \cup {"a"}, MaxPassword)

get_symbol_coords(button) == button.coord

\* mutant: a blank image is registered like any other
load_symbols_blank_kept(m, coord, c) ==
    [k \in DOMAIN m \cup {coord} |-> IF k = coord THEN c ELSE m[k]]

load_symbols(m, coord, c) ==
    IF coord = Blank
    THEN m
    ELSE [k \in DOMAIN m \cup {coord} |-> IF k = coord THEN c ELSE m[k]]

\* BoursoramaVirtKeyboard.__init__: the loop over the buttons from the i-th on
RECURSIVE BoursoramaVirtKeyboard_init(_, _, _)
BoursoramaVirtKeyboard_init(btns, i, m) ==
    IF i > Len(btns)
    THEN m
    ELSE BoursoramaVirtKeyboard_init(
             btns, i + 1, load_symbols(m, get_symbol_coords(btns[i]), btns[i].key))

NoCode == [state |-> "none", exc |-> "none", value |-> <<>>]

RECURSIVE get_code_loop(_, _, _, _)
RECURSIVE get_code_loop_skips_unknown(_, _, _, _)
RECURSIVE get_code_loop_no_separator(_, _, _, _)

\* mutant: a character without a button is left out
get_code_loop_skips_unknown(m, pw, i, c) ==
    IF i > Len(pw)
    THEN [state |-> "returned", exc |-> "none", value |-> c]
    ELSE LET d == pw[i]
             sep == IF i > 1 THEN c \o <<"|">> ELSE c
         IN
         IF d \notin DOMAIN symbols \/ symbols[d] \notin DOMAIN m
         THEN get_code_loop_skips_unknown(m, pw, i + 1, c)
         ELSE get_code_loop_skips_unknown(m, pw, i + 1, Append(sep, m[symbols[d]]))

\* mutant: the keys are concatenated without '|'
get_code_loop_no_separator(m, pw, i, c) ==
    IF i > Len(pw)
    THEN [state |-> "returned", exc |-> "none", value |-> c]
    ELSE LET d == pw[i] IN
         IF d \notin DOMAIN symbols \/ symbols[d] \notin DOMAIN m
         THEN [state |-> "raised", exc |-> "VirtKeyboardError", value |-> <<>>]
         ELSE get_code_loop_no_separator(m, pw, i + 1, Append(c, m[symbols[d]]))

\* get_code: the loop over the characters from the i-th on, c the code so far.
\* Either lookup of self.md5[self.symbols[d]] can raise KeyError.
get_code_loop(m, pw, i, c) ==
    IF i > Len(pw)
    THEN [state |-> "returned", exc |-> "none", value |-> c]
    ELSE LET d == pw[i]
             sep == IF i > 1 THEN c \o <<"|">> ELSE c
         IN
         IF d \notin DOMAIN symbols \/ symbols[d] \notin DOMAIN m
         THEN [state |-> "raised", exc |-> "VirtKeyboardError", value |-> <<>>]
         ELSE get_code_loop(m, pw, i + 1, Append(sep, m[symbols[d]]))

get_code(m, pw) == get_code_loop(m, pw, 1, <<>>)

\* vk.get_code(password), once on the keyboard built from a keypad page
GetCode ==
    /\ code = NoCode
    /\ login.call # "login"
    /\ \E pw \in Passwords :
        /\ password' = pw
        /\ code' = get_code(md5, pw)
    /\ UNCHANGED <<buttons, md5, condVars, pageVars, waitVars, stableVars, captchaVars, locatorVars, implicitVars, sessionVars, authVars>>

(***************************************************************************)
(* Locator conditions (src/weboob/browser/selenium.py).  A string is       *)
(* modelled as itself; no helper here formats one.                         *)
(***************************************************************************)
MaxBuilt == 3

XPaths == {"//div[@id=\"a\"]", "//span[@class=\"b\"]", "//p"}

\* (By.XPATH, xpath)
xpath_locator(xpath) == <<"xpath", xpath>>

\* EC.visibility_of_element_located(locator)
visibility_of_element_located(locator) ==
    [op |-> "visibility_of_element_located", locator |-> locator]

VisibleXPath(xpath) ==
    WrapException(visibility_of_element_located(xpath_locator(xpath)))

\* the body rebinds xpath to the literal and never substitutes the argument
HasTextCondition(xpath) ==
    LET xpath_1 == "(%s)[normalize-space(text())!=\"\"]" IN
    VisibleXPath(xpath_1)

BuildVisibleXPath ==
    /\ Len(built) < MaxBuilt
    /\ \E xpath \in XPaths :
        built' = Append(built, [builder |-> "VisibleXPath", xpath |-> xpath,
                                condition |-> VisibleXPath(xpath)])
    /\ UNCHANGED <<condVars, pageVars, waitVars, stableVars, captchaVars, keypadVars,
                   implicitVars, sessionVars, authVars>>

BuildHasTextCondition ==
    /\ Len(built) < MaxBuilt
    /\ \E xpath \in XPaths :
        built' = Append(built, [builder |-> "HasTextCondition", xpath |-> xpath,
                                condition |-> HasTextCondition(xpath)])
    /\ UNCHANGED <<condVars, pageVars, waitVars, stableVars, captchaVars, keypadVars,
                   implicitVars, sessionVars, authVars>>

LocatorNext ==
    \/ BuildVisibleXPath
    \/ BuildHasTextCondition

(***************************************************************************)
(* Implicit wait (src/weboob/browser/selenium.py).  driver_wait is the     *)
(* value last given to driver.implicitly_wait.  A frame of blocks is an    *)
(* open "with implicit_wait(timeout)" block: old is its local variable,    *)
(* before (history) the driver's wait when the block was entered.          *)
(***************************************************************************)
MaxTimeout == 2
MaxBlocks == 3
MaxMatching == 2

Timeouts == 0..MaxTimeout

\* SeleniumBrowser.implicitly_wait(timeout)
implicitly_wait(st, timeout) ==
    [st EXCEPT !.implicit_timeout = timeout, !.driver_wait = timeout]

\* implicit_wait(timeout) up to the yield
implicit_wait_enter(st, timeout) ==
    [st EXCEPT !.driver_wait = timeout,
               !.blocks = Append(@, [old |-> st.implicit_timeout,
                                     timeout |-> timeout,
                                     before |-> st.driver_wait])]

\* the finally clause of implicit_wait: runs when the body returns or raises
implicit_wait_exit(st) ==
    [st EXCEPT !.driver_wait = st.blocks[Len(st.blocks)].old,
               !.blocks = SubSeq(@, 1, Len(@) - 1)]

\* SeleniumBrowser.page as far as the implicit wait goes: one
\* "with self.implicit_wait(0)" block for each of the n matching patterns tried
RECURSIVE page_implicit_waits(_, _)
page_implicit_waits(st, n) ==
    IF n = 0
    THEN st
    ELSE page_implicit_waits(implicit_wait_exit(implicit_wait_enter(st, 0)), n - 1)

WaitState ==
    [implicit_timeout |-> implicit_timeout, driver_wait |-> driver_wait, blocks |-> blocks]

WaitBecomes(st) ==
    /\ implicit_timeout' = st.implicit_timeout
    /\ driver_wait' = st.driver_wait
    /\ blocks' = st.blocks
    /\ UNCHANGED <<condVars, pageVars, waitVars, stableVars, captchaVars, keypadVars,
                   locatorVars, sessionVars, authVars>>

\* browser.implicitly_wait(timeout), called outside of any block
ImplicitlyWait ==
    /\ blocks = <<>>
    /\ \E timeout \in Timeouts : WaitBecomes(implicitly_wait(WaitState, timeout))

\* with browser.implicit_wait(timeout): the block is entered
EnterImplicitWait ==
    /\ Len(blocks) < MaxBlocks
    /\ \E timeout \in Timeouts : WaitBecomes(implicit_wait_enter(WaitState, timeout))

\* the innermost block ends, its body having returned or raised
LeaveImplicitWait ==
    /\ blocks # <<>>
    /\ WaitBecomes(implicit_wait_exit(WaitState))

\* browser.page is evaluated, n patterns matching the location
ResolvePage ==
    /\ Len(blocks) <= MaxBlocks
    /\ \E n \in 0..MaxMatching : WaitBecomes(page_implicit_waits(WaitState, n))

ImplicitNext ==
    \/ ImplicitlyWait
    \/ EnterImplicitWait
    \/ LeaveImplicitWait
    \/ ResolvePage

(***************************************************************************)
(* Sessions of one browser class (SeleniumBrowser.__init__).  URL objects  *)
(* live in heap and are named by their index in it, so that two names of   *)
(* one object can be told from two equal objects.                          *)
(***************************************************************************)
MaxAttrs == 3
MaxSessions == 2

Sessions == 1..MaxSessions

\* val.browser of a URL bound to no browser
Unbound == 0

\* the orders in which the URL attributes of the class can have been created
CreationOrders ==
    {f \in [1..MaxAttrs -> 1..MaxAttrs] : \A i, j \in 1..MaxAttrs : i # j => f[i] # f[j]}

\* the class body: URL attributes, bound to no browser
ClassHeap(order) ==
    [i \in 1..MaxAttrs |-> [klass |-> i, _creation_counter |-> order[i], browser |-> Unbound]]

\* mutant: the class's own object is used
deepcopy_aliased(h, id) == [heap |-> h, id |-> id]

\* deepcopy(val): a new object equal to val
deepcopy(h, id) == [heap |-> Append(h, h[id]), id |-> Len(h) + 1]

\* self._urls.sort(key=lambda u: u._creation_counter)
sort_urls(h, ids) ==
    LET keyed == [i \in 1..Len(ids) |->
                    [id |-> ids[i], _creation_counter |-> h[ids[i]]._creation_counter]]
        sorted == sort(keyed)
    IN [i \in 1..Len(ids) |-> sorted[i].id]

\* the loop of __init__ over the URL attributes of the class from the i-th on:
\* val = deepcopy(val); val.browser = self; setattr(self, attr, val);
\* self._urls.append(val)
RECURSIVE SeleniumBrowser_init_loop(_, _, _, _, _)
SeleniumBrowser_init_loop(h, attrs, i, self, urls) ==
    IF i > Len(attrs)
    THEN [heap |-> h, _urls |-> urls]
    ELSE LET copy == deepcopy(h, attrs[i])
             bound == [copy.heap EXCEPT ![copy.id].browser = self]
         IN SeleniumBrowser_init_loop(bound, attrs, i + 1, self, Append(urls, copy.id))

SeleniumBrowser_init(h, attrs, self) ==
    LET r == SeleniumBrowser_init_loop(h, attrs, 1, self, <<>>) IN
    [heap |-> r.heap, _urls |-> sort_urls(r.heap, r._urls), attrs |-> r._urls]

\* a session of the class is constructed
NewBrowser ==
    /\ \E self \in Sessions \ DOMAIN browsers :
        LET r == SeleniumBrowser_init(heap, cls_urls, self) IN
        /\ heap' = r.heap
        /\ browsers' = [b \in DOMAIN browsers \cup {self} |->
                            IF b = self
                            THEN [_urls |-> r._urls, attrs |-> r.attrs,
                                  page |-> [kind |-> "unevaluated", klass |-> 0]]
                            ELSE browsers[b]]
    /\ UNCHANGED <<cls_urls, condVars, pageVars, waitVars, stableVars, captchaVars,
                   keypadVars, locatorVars, implicitVars, authVars>>

\* a session resolves its current page: none, or the page of one of its
\* patterns; the patterns are only read
BrowserPage ==
    /\ \E self \in DOMAIN browsers :
        \E p \in {[kind |-> "none", klass |-> 0]}
                  \cup {[kind |-> "page", klass |-> heap[id].klass] :
                            id \in Range(browsers[self]._urls)} :
            browsers' = [browsers EXCEPT ![self].page = p]
    /\ UNCHANGED <<heap, cls_urls, condVars, pageVars, waitVars, stableVars, captchaVars,
                   keypadVars, locatorVars, implicitVars, authVars>>

SessionNext ==
    \/ NewBrowser
    \/ BrowserPage

(***************************************************************************)
(* Login flows with a second factor (src/modules/ovh/browser.py,           *)
(* src/modules/s2e/browser.py, src/modules/boursorama/pages.py).  The site *)
(* is an input of each call: a record saying what its pages show.  Page    *)
(* methods whose code is not in the repository are taken from that record. *)
(***************************************************************************)
Modules == {"ovh", "s2e", "boursorama", "carrefour"}
Codes == {"123456"}
Tokens == {"flow-1", "flow-2"}

\* otp_form = None: no prepared form
NoForm == [token |-> None, emailCode |-> None]

OvhLogin == "/auth/"
OvhSecurity == "/auth/?action=gotoSecurity"
OvhProfile == "/engine/api/me"
S2eLogin == "/portal/salarie-bnp/authentification"
S2eLoginError == "/portal/login"
S2eLanding == "/portal/salarie-bnp/accueil"
CarrefourLogin == "/espace-client/connexion"
CarrefourIncapsula == "/_Incapsula_Resource"
NoUrl == "about:blank"

\* the daily limit message of the Boursorama SMS page
MaxLimitMessage == "Vous avez atteint le nombre maximal de demandes pour aujourd'hui"

NoConfig == [pin_code |-> None, otp |-> None, captcha_response |-> None]

\* the fields of a browser just constructed (class defaults)
NewLoginBrowser(module) ==
    [module |-> module, otp_form |-> NoForm, otp_url |-> None, url |-> NoUrl,
     auth_token |-> None]

NoBrowser == NewLoginBrowser("none")

NoSite ==
    [logged_at_go |-> FALSE, check |-> "ok", double_auth |-> FALSE, logged |-> FALSE,
     token |-> None, url_after |-> NoUrl, check_after |-> "ok", error |-> "",
     is_javascript |-> FALSE]

OvhSites ==
    {[NoSite EXCEPT !.logged_at_go = g, !.check = c, !.double_auth = d, !.logged = l,
                    !.token = t, !.url_after = u] :
        g \in BOOLEAN, c \in {"ok", "ActionNeeded"}, d \in BOOLEAN, l \in BOOLEAN,
        t \in Tokens, u \in {OvhLogin, OvhSecurity}}

S2eSites ==
    {[NoSite EXCEPT !.check = c, !.url_after = u, !.check_after = a, !.error = e] :
        c \in {"ok", "BrowserIncorrectPassword"},
        a \in {"ok", "BrowserIncorrectPassword"},
        u \in {S2eLogin, S2eLoginError, S2eLanding},
        e \in {"", "Code invalide"}}

CarrefourSites ==
    {[NoSite EXCEPT !.url_after = u, !.is_javascript = j, !.logged = l, !.token = t] :
        u \in {CarrefourLogin, CarrefourIncapsula}, j \in BOOLEAN, l \in BOOLEAN,
        t \in Tokens}

BoursoramaSites ==
    {[NoSite EXCEPT !.token = t, !.error = e] :
        t \in Tokens, e \in {"", MaxLimitMessage, "Une erreur est survenue"}}

Request(method, to, what, form) ==
    [method |-> method, url |-> to, what |-> what, form |-> form]

Returned(b, reqs) ==
    [browser |-> b, requests |-> reqs, state |-> "returned", exc |-> "none",
     fields |-> <<>>]

Raised(b, reqs, exc, fields) ==
    [browser |-> b, requests |-> reqs, state |-> "raised", exc |-> exc,
     fields |-> fields]

\* OvhBrowser.validate_security_form: item assignment on otp_form, which is
\* a TypeError when otp_form is None, then one POST of that form
validate_security_form(b, cfg) ==
    IF b.otp_form = NoForm
    THEN Raised(b, <<>>, "TypeError", <<>>)
    ELSE LET res_form == [b.otp_form EXCEPT !.emailCode = cfg.pin_code] IN
         Returned([b EXCEPT !.otp_form = res_form],
                  <<Request("POST", b.url, "security form", res_form)>>)

\* mutant: the question is raised before the form and the URL are stored
ovh_login_with_credentials_form_not_stored(b, site) ==
    LET b1 == [b EXCEPT !.url = OvhLogin]
        r1 == <<Request("GET", OvhLogin, "login page", NoForm)>>
    IN
    IF site.logged_at_go THEN Returned(b1, r1)
    ELSE LET b2 == [b1 EXCEPT !.url = site.url_after]
             r2 == Append(r1, Request("POST", OvhLogin, "credentials", NoForm))
         IN
         IF site.check # "ok" THEN Raised(b2, r2, site.check, <<>>)
         ELSE IF site.double_auth
         THEN Raised(b2, r2, "BrowserQuestion", <<"pin_code">>)
         ELSE IF ~site.logged
         THEN Raised(b2, r2, "BrowserIncorrectPassword", <<>>)
         ELSE Returned(b2, r2)

\* OvhBrowser.do_login without a code: the login page, the credentials, then
\* the question when the site asks for a second factor
ovh_login_with_credentials(b, site) ==
    LET b1 == [b EXCEPT !.url = OvhLogin]
        r1 == <<Request("GET", OvhLogin, "login page", NoForm)>>
    IN
    IF site.logged_at_go THEN Returned(b1, r1)
    ELSE LET b2 == [b1 EXCEPT !.url = site.url_after]
             r2 == Append(r1, Request("POST", OvhLogin, "credentials", NoForm))
         IN
         IF site.check # "ok" THEN Raised(b2, r2, site.check, <<>>)
         ELSE IF site.double_auth
         THEN Raised([b2 EXCEPT !.otp_form = [token |-> site.token,
                                              emailCode |-> None],
                                !.otp_url = b2.url],
                     r2, "BrowserQuestion", <<"pin_code">>)
         ELSE IF ~site.logged
         THEN Raised(b2, r2, "BrowserIncorrectPassword", <<>>)
         ELSE Returned(b2, r2)

\* mutant: after a wrong code the login starts again with the credentials
ovh_do_login_retries(b, cfg, site) ==
    IF cfg.pin_code # None
    THEN LET v == validate_security_form(b, cfg) IN
         IF v.state = "raised" THEN v
         ELSE IF ~site.logged
         THEN LET w == ovh_login_with_credentials(v.browser, site) IN
              [w EXCEPT !.requests = v.requests \o w.requests]
         ELSE Returned(v.browser, v.requests)
    ELSE ovh_login_with_credentials(b, site)

\* mutant: the code is sent in a new form, after the login page is fetched again
ovh_do_login_fresh_start(b, cfg, site) ==
    IF cfg.pin_code # None
    THEN LET v == validate_security_form(b, cfg)
             again == Request("GET", OvhLogin, "login page", NoForm)
         IN
         IF v.state = "raised" THEN v
         ELSE IF ~site.logged
         THEN Raised(v.browser, <<again>> \o v.requests, "BrowserIncorrectPassword", <<>>)
         ELSE Returned(v.browser, <<again>> \o v.requests)
    ELSE ovh_login_with_credentials(b, site)

\* OvhBrowser.do_login
ovh_do_login(b, cfg, site) ==
    IF cfg.pin_code # None
    THEN LET v == validate_security_form(b, cfg) IN
         IF v.state = "raised" THEN v
         ELSE IF ~site.logged
         THEN Raised(v.browser, v.requests, "BrowserIncorrectPassword", <<>>)
         ELSE Returned(v.browser, v.requests)
    ELSE ovh_login_with_credentials(b, site)

\* mutant: a configured code is sent wherever the browser is
s2e_do_login_code_anywhere(b, cfg, site) ==
    IF cfg.otp # None
    THEN IF site.check # "ok"
         THEN Raised(b, <<>>, site.check, <<>>)
         ELSE LET b1 == [b EXCEPT !.url = site.url_after]
                  r1 == <<Request("POST", S2eLogin, "otp", NoForm)>>
              IN
              IF b1.url = S2eLogin /\ site.check_after # "ok"
              THEN Raised(b1, r1, site.check_after, <<>>)
              ELSE Returned(b1, r1)
    ELSE LET b1 == [b EXCEPT !.url = site.url_after]
             r1 == <<Request("GET", S2eLogin, "login page", NoForm),
                     Request("POST", S2eLogin, "credentials", NoForm)>>
         IN
         IF b1.url = S2eLoginError
         THEN Raised(b1, r1, "BrowserIncorrectPassword", <<>>)
         ELSE IF b1.url = S2eLogin /\ site.error # ""
         THEN Raised(b1, r1, "ActionNeeded", <<>>)
         ELSE Returned(b1, r1)

\* S2eBrowser.do_login
s2e_do_login(b, cfg, site) ==
    IF b.url = S2eLogin /\ cfg.otp # None
    THEN IF site.check # "ok"
         THEN Raised(b, <<>>, site.check, <<>>)
         ELSE LET b1 == [b EXCEPT !.url = site.url_after]
                  r1 == <<Request("POST", S2eLogin, "otp", NoForm)>>
              IN
              IF b1.url = S2eLogin /\ site.check_after # "ok"
              THEN Raised(b1, r1, site.check_after, <<>>)
              ELSE Returned(b1, r1)
    ELSE LET b1 == [b EXCEPT !.url = site.url_after]
             r1 == <<Request("GET", S2eLogin, "login page", NoForm),
                     Request("POST", S2eLogin, "credentials", NoForm)>>
         IN
         IF b1.url = S2eLoginError
         THEN Raised(b1, r1, "BrowserIncorrectPassword", <<>>)
         ELSE IF b1.url = S2eLogin /\ site.error # ""
         THEN Raised(b1, r1, "ActionNeeded", <<>>)
         ELSE Returned(b1, r1)

\* AuthenticationPage.sms_first_step
sms_first_step(b) ==
    Returned(b, <<Request("POST", b.url, "sms form", NoForm)>>)

\* mutant: the stored flow token is left in the session
authenticate_token_kept(b, cfg) ==
    Returned(b, <<Request("POST", b.url, "otp confirm",
                          [token |-> b.auth_token, emailCode |-> cfg.pin_code])>>)

\* AuthenticationPage.authenticate: the form carries the code
\* (otp_confirm[otpCode], held in the form's code slot) and the stored flow token
authenticate(b, cfg) ==
    Returned([b EXCEPT !.auth_token = None],
             <<Request("POST", b.url, "otp confirm",
                       [token |-> b.auth_token, emailCode |-> cfg.pin_code])>>)

\* mutant: the flow token is stored before the page's errors are looked at
sms_second_step_token_first(b, site) ==
    IF site.error # ""
    THEN Raised([b EXCEPT !.auth_token = site.token], <<>>,
                "BrowserIncorrectPassword", <<>>)
    ELSE Raised([b EXCEPT !.auth_token = site.token],
                <<Request("POST", b.url, "sms form", NoForm)>>,
                "BrowserQuestion", <<"pin_code">>)

\* AuthenticationPage.sms_second_step
sms_second_step(b, site) ==
    IF site.error # ""
    THEN Raised(b, <<>>, "BrowserIncorrectPassword", <<>>)
    ELSE Raised([b EXCEPT !.auth_token = site.token],
                <<Request("POST", b.url, "sms form", NoForm)>>,
                "BrowserQuestion", <<"pin_code">>)

\* CarrefourBanqueBrowser.do_login after the login page was asked for: the
\* two credentials are typed, then the home page is expected
carrefour_enter_credentials(b, reqs, site) ==
    LET typed == reqs \o <<Request("TYPE", b.url, "enter_login", NoForm),
                            Request("TYPE", b.url, "enter_password", NoForm)>>
    IN
    IF ~site.logged THEN Raised(b, typed, "BrowserIncorrectPassword", <<>>)
    ELSE Returned(b, typed)

\* mutant: the credentials are typed before the interstitial is looked at
carrefour_do_login_types_first(b, cfg, site) ==
    LET r == carrefour_enter_credentials([b EXCEPT !.url = site.url_after],
                 <<Request("GET", CarrefourLogin, "login page", NoForm)>>, site)
    IN
    IF site.url_after = CarrefourIncapsula /\ ~site.is_javascript
    THEN Raised(r.browser, r.requests, "NocaptchaQuestion", <<site.token, CarrefourLogin>>)
    ELSE r

\* CarrefourBanqueBrowser.do_login
carrefour_do_login(b, cfg, site) ==
    LET r0 == IF cfg.captcha_response # None
              THEN <<Request("POST", CarrefourIncapsula, "captcha response", NoForm)>>
              ELSE <<>>
        r1 == Append(r0, Request("GET", CarrefourLogin, "login page", NoForm))
        b1 == [b EXCEPT !.url = site.url_after]
    IN
    IF b1.url = CarrefourIncapsula
    THEN IF site.is_javascript
         THEN carrefour_enter_credentials([b1 EXCEPT !.url = CarrefourLogin],
                  Append(r1, Request("GET", CarrefourLogin, "login page", NoForm)), site)
         ELSE Raised(b1, r1, "NocaptchaQuestion", <<site.token, CarrefourLogin>>)
    ELSE carrefour_enter_credentials(b1, r1, site)

\* the except clauses a caller can wrap a call in
Handlers == {"BrowserIncorrectPassword", "BrowserQuestion", "BrowserBanned"}

\* whether "except handler:" catches an exception of class exc
except_catches(handler, exc) == isinstance([class |-> exc], handler)

NoLogin ==
    [call |-> "none", state |-> "none", exc |-> "none", fields |-> <<>>,
     handler |-> "none", caught |-> FALSE, code |-> None, form |-> NoForm,
     url |-> NoUrl, site |-> NoSite]

\* a call made inside "try: ... except handler:" ended as r
LoginCall(call, handler, site, r) ==
    /\ browser' = r.browser
    /\ requests' = r.requests
    /\ login' = [call |-> call, state |-> r.state, exc |-> r.exc, fields |-> r.fields,
                 handler |-> handler,
                 caught |-> r.state = "raised" /\ except_catches(handler, r.exc),
                 code |-> CASE browser.module = "s2e" -> config.otp
                            [] browser.module = "carrefour" -> config.captcha_response
                            [] OTHER -> config.pin_code,
                 form |-> browser.otp_form, url |-> browser.url, site |-> site]
    /\ UNCHANGED <<config, condVars, pageVars, waitVars, stableVars, captchaVars,
                   keypadVars, locatorVars, implicitVars, sessionVars>>

OvhDoLogin ==
    /\ browser.module = "ovh"
    /\ \E site \in OvhSites, handler \in Handlers :
        LoginCall("do_login", handler, site, ovh_do_login(browser, config, site))

S2eDoLogin ==
    /\ browser.module = "s2e"
    /\ \E site \in S2eSites, handler \in Handlers :
        LoginCall("do_login", handler, site, s2e_do_login(browser, config, site))

SmsFirstStep ==
    /\ browser.module = "boursorama"
    /\ \E handler \in Handlers :
        LoginCall("sms_first_step", handler, NoSite, sms_first_step(browser))

SmsSecondStep ==
    /\ browser.module = "boursorama"
    /\ \E site \in BoursoramaSites, handler \in Handlers :
        LoginCall("sms_second_step", handler, site, sms_second_step(browser, site))

CarrefourDoLogin ==
    /\ browser.module = "carrefour"
    /\ \E site \in CarrefourSites, handler \in Handlers :
        LoginCall("do_login", handler, site, carrefour_do_login(browser, config, site))

Authenticate ==
    /\ browser.module = "boursorama"
    /\ \E handler \in Handlers :
        LoginCall("authenticate", handler, NoSite, authenticate(browser, config))

(***************************************************************************)
(* Boursorama LoginPage.login (src/modules/boursorama/pages.py): the       *)
(* password is turned into digits, decoded on the keypad of the page, and  *)
(* the form goes out with the code.                                        *)
(***************************************************************************)
TO_DIGIT ==
    [k \in {"2", "3", "4", "5", "6", "7", "8", "9"} |->
        CASE k = "2" -> {"a", "b", "c"}
          [] k = "3" -> {"d", "e", "f"}
          [] k = "4" -> {"g", "h", "i"}
          [] k = "5" -> {"j", "k", "l"}
          [] k = "6" -> {"m", "n", "o"}
          [] k = "7" -> {"p", "q", "r", "s"}
          [] k = "8" -> {"t", "u", "v"}
          [] k = "9" -> {"w", "x", "y", "z"}]

\* the characters typed in the modelled passwords
PasswordChars == ShownDigits \cup {"a", "A", "!"}
LoginPasswords == SeqsUpTo(PasswordChars, MaxPassword)

\* str.isdigit and str.lower on those characters
isdigit(c) == c \in DOMAIN symbols
lower(c) == IF c = "A" THEN "a" ELSE c

\* c if c.isdigit() else [k for k, v in TO_DIGIT.items() if c in v][0]
to_digit(c) ==
    IF isdigit(c) THEN c
    ELSE LET ks == {k \in DOMAIN TO_DIGIT : c \in TO_DIGIT[k]} IN
         IF ks = {} THEN "IndexError" ELSE CHOOSE k \in ks : TRUE

\* LoginPage.login on the keypad page btns with password pw
LoginPage_login(btns, pw) ==
    LET digits == IF pw # <<>> /\ \A i \in 1..Len(pw) : isdigit(pw[i])
                  THEN pw
                  ELSE [i \in 1..Len(pw) |-> to_digit(lower(pw[i]))]
        vk == BoursoramaVirtKeyboard_init(btns, 1, <<>>)
        got == get_code(vk, digits)
    IN
    IF \E i \in 1..Len(digits) : digits[i] = "IndexError"
    THEN [state |-> "raised", exc |-> "IndexError", code |-> <<>>, requests |-> <<>>]
    ELSE IF got.state = "raised"
    THEN [state |-> "raised", exc |-> got.exc, code |-> <<>>, requests |-> <<>>]
    ELSE [state |-> "returned", exc |-> "none", code |-> got.value,
          requests |-> <<Request("POST", NoUrl, "login form", NoForm)>>]

\* page.login(login, password) on the keypad page, once; fields keeps the
\* code put in form[password]
Login ==
    /\ code = NoCode
    /\ login = NoLogin
    /\ \E pw \in LoginPasswords :
        LET r == LoginPage_login(buttons, pw) IN
        /\ password' = pw
        /\ requests' = r.requests
        /\ login' = [NoLogin EXCEPT !.call = "login", !.state = r.state,
                                    !.exc = r.exc, !.fields = r.code]
    /\ UNCHANGED <<buttons, md5, code, config, browser, condVars, pageVars, waitVars,
                   stableVars, captchaVars, locatorVars, implicitVars, sessionVars>>

KeypadNext ==
    \/ GetCode
    \/ Login

\* a module raises BrowserBanned
RaiseBanned ==
    /\ browser.module # "none"
    /\ \E handler \in Handlers :
        LoginCall("raise", handler, NoSite, Raised(browser, <<>>, "BrowserBanned", <<>>))

\* OvhBrowser.locate_browser, called when a stored state is loaded: the
\* browser goes to the profile URL, from where the site may send it to the
\* login page
LocateBrowser ==
    /\ browser.module = "ovh"
    /\ \E landed \in {OvhProfile, OvhLogin} :
        /\ browser' = [browser EXCEPT !.url = landed]
        /\ requests' = <<Request("GET", OvhProfile, "profile", NoForm)>>
    /\ login' = [NoLogin EXCEPT !.call = "locate_browser", !.url = browser.url]
    /\ UNCHANGED <<config, condVars, pageVars, waitVars, stableVars, captchaVars,
                   keypadVars, locatorVars, implicitVars, sessionVars>>

\* the user puts the code in the configuration
ProvideCode ==
    /\ browser.module # "none"
    /\ config = NoConfig
    /\ \E c \in Codes :
        config' = CASE browser.module = "s2e" -> [config EXCEPT !.otp = c]
                    [] browser.module = "carrefour" -> [config EXCEPT !.captcha_response = c]
                    [] OTHER -> [config EXCEPT !.pin_code = c]
    /\ requests' = <<>>
    /\ login' = NoLogin
    /\ UNCHANGED <<browser, condVars, pageVars, waitVars, stableVars, captchaVars,
                   keypadVars, locatorVars, implicitVars, sessionVars>>

\* the persisted state is gone (expired, or never stored): the next call is
\* made on a browser whose state fields have their class defaults
Expire ==
    /\ browser.module # "none"
    /\ browser # NewLoginBrowser(browser.module)
    /\ browser' = NewLoginBrowser(browser.module)
    /\ requests' = <<>>
    /\ login' = NoLogin
    /\ UNCHANGED <<config, condVars, pageVars, waitVars, stableVars, captchaVars,
                   keypadVars, locatorVars, implicitVars, sessionVars>>

AuthNext ==
    \/ OvhDoLogin
    \/ S2eDoLogin
    \/ SmsFirstStep
    \/ SmsSecondStep
    \/ CarrefourDoLogin
    \/ Authenticate
    \/ RaiseBanned
    \/ LocateBrowser
    \/ ProvideCode
    \/ Expire

(***************************************************************************)
(* Specifications: one per component, the other components at rest.        *)
(***************************************************************************)
CondInit ==
    /\ condition \in FlatConditions
    /\ value = "none"
    /\ called = 0
    /\ _urls = <<>> /\ url = "/login" /\ page = NotEvaluated /\ is_here_calls = <<>>
    /\ responses_dirname = None /\ dir_exists = FALSE /\ responses_count = 0
    /\ files = <<>> /\ wait = Idle
    /\ elements = <<>> /\ waiting = 1 /\ now = 0 /\ tick = NoTick
    /\ question = NoQuestion /\ conversion = "none" /\ job = NoJob /\ solving = NotStarted
    /\ buttons = <<>> /\ md5 = <<>> /\ password = <<>> /\ code = NoCode
    /\ built = <<>>
    /\ implicit_timeout = 0 /\ driver_wait = 0 /\ blocks = <<>>
    /\ heap = <<>> /\ cls_urls = <<>> /\ browsers = <<>>
    /\ config = NoConfig /\ browser = NoBrowser /\ requests = <<>> /\ login = NoLogin

\* SeleniumBrowser.__init__ on a class with MaxUrls URL attributes
PageInit ==
    /\ \E attrs \in ClassAttributes : _urls = SeleniumBrowser_init_urls(attrs)
    /\ url \in Locations
    /\ page = NotEvaluated
    /\ is_here_calls = <<>>
    /\ condition = CustomCondition("True") /\ value = "none" /\ called = 0
    /\ responses_dirname = None /\ dir_exists = FALSE /\ responses_count = 0
    /\ files = <<>> /\ wait = Idle
    /\ elements = <<>> /\ waiting = 1 /\ now = 0 /\ tick = NoTick
    /\ question = NoQuestion /\ conversion = "none" /\ job = NoJob /\ solving = NotStarted
    /\ buttons = <<>> /\ md5 = <<>> /\ password = <<>> /\ code = NoCode
    /\ built = <<>>
    /\ implicit_timeout = 0 /\ driver_wait = 0 /\ blocks = <<>>
    /\ heap = <<>> /\ cls_urls = <<>> /\ browsers = <<>>
    /\ config = NoConfig /\ browser = NoBrowser /\ requests = <<>> /\ login = NoLogin

\* SeleniumBrowser.__init__: the directory exists when the Firefox driver made
\* it, and may or may not exist under the other drivers
WaitInit ==
    /\ responses_dirname \in Dirnames
    /\ dir_exists \in (IF responses_dirname = None THEN {FALSE} ELSE BOOLEAN)
    /\ responses_count = 0
    /\ files = <<>>
    /\ wait = Idle
    /\ condition = CustomCondition("True") /\ value = "none" /\ called = 0
    /\ _urls = <<>> /\ url = "/login" /\ page = NotEvaluated /\ is_here_calls = <<>>
    /\ elements = <<>> /\ waiting = 1 /\ now = 0 /\ tick = NoTick
    /\ question = NoQuestion /\ conversion = "none" /\ job = NoJob /\ solving = NotStarted
    /\ buttons = <<>> /\ md5 = <<>> /\ password = <<>> /\ code = NoCode
    /\ built = <<>>
    /\ implicit_timeout = 0 /\ driver_wait = 0 /\ blocks = <<>>
    /\ heap = <<>> /\ cls_urls = <<>> /\ browsers = <<>>
    /\ config = NoConfig /\ browser = NoBrowser /\ requests = <<>> /\ login = NoLogin

SpecCond == CondInit /\ [][CondNext]_vars
SpecPage == PageInit /\ [][PageNext]_vars
SpecWait == WaitInit /\ [][WaitNext]_vars

CaptchaInit ==
    /\ question = NoQuestion /\ conversion = "none" /\ job = NoJob /\ solving = NotStarted
    /\ condition = CustomCondition("True") /\ value = "none" /\ called = 0
    /\ _urls = <<>> /\ url = "/login" /\ page = NotEvaluated /\ is_here_calls = <<>>
    /\ responses_dirname = None /\ dir_exists = FALSE /\ responses_count = 0
    /\ files = <<>> /\ wait = Idle
    /\ elements = <<>> /\ waiting = 1 /\ now = 0 /\ tick = NoTick
    /\ buttons = <<>> /\ md5 = <<>> /\ password = <<>> /\ code = NoCode
    /\ built = <<>>
    /\ implicit_timeout = 0 /\ driver_wait = 0 /\ blocks = <<>>
    /\ heap = <<>> /\ cls_urls = <<>> /\ browsers = <<>>
    /\ config = NoConfig /\ browser = NoBrowser /\ requests = <<>> /\ login = NoLogin

StableInit ==
    /\ elements = <<>> /\ waiting \in 1..MaxWaiting /\ now = 0 /\ tick = NoTick
    /\ condition = CustomCondition("True") /\ value = "none" /\ called = 0
    /\ _urls = <<>> /\ url = "/login" /\ page = NotEvaluated /\ is_here_calls = <<>>
    /\ responses_dirname = None /\ dir_exists = FALSE /\ responses_count = 0
    /\ files = <<>> /\ wait = Idle
    /\ question = NoQuestion /\ conversion = "none" /\ job = NoJob /\ solving = NotStarted
    /\ buttons = <<>> /\ md5 = <<>> /\ password = <<>> /\ code = NoCode
    /\ built = <<>>
    /\ implicit_timeout = 0 /\ driver_wait = 0 /\ blocks = <<>>
    /\ heap = <<>> /\ cls_urls = <<>> /\ browsers = <<>>
    /\ config = NoConfig /\ browser = NoBrowser /\ requests = <<>> /\ login = NoLogin

KeypadInit ==
    /\ buttons \in Layouts
    /\ md5 = BoursoramaVirtKeyboard_init(buttons, 1, <<>>)
    /\ password = <<>> /\ code = NoCode
    /\ condition = CustomCondition("True") /\ value = "none" /\ called = 0
    /\ _urls = <<>> /\ url = "/login" /\ page = NotEvaluated /\ is_here_calls = <<>>
    /\ responses_dirname = None /\ dir_exists = FALSE /\ responses_count = 0
    /\ files = <<>> /\ wait = Idle
    /\ elements = <<>> /\ waiting = 1 /\ now = 0 /\ tick = NoTick
    /\ question = NoQuestion /\ conversion = "none" /\ job = NoJob /\ solving = NotStarted
    /\ built = <<>>
    /\ implicit_timeout = 0 /\ driver_wait = 0 /\ blocks = <<>>
    /\ heap = <<>> /\ cls_urls = <<>> /\ browsers = <<>>
    /\ config = NoConfig /\ browser = NoBrowser /\ requests = <<>> /\ login = NoLogin

SpecKeypad == KeypadInit /\ [][KeypadNext]_vars

SpecStable == StableInit /\ [][StableNext]_vars

LocatorInit ==
    /\ built = <<>>
    /\ condition = CustomCondition("True") /\ value = "none" /\ called = 0
    /\ _urls = <<>> /\ url = "/login" /\ page = NotEvaluated /\ is_here_calls = <<>>
    /\ responses_dirname = None /\ dir_exists = FALSE /\ responses_count = 0
    /\ files = <<>> /\ wait = Idle
    /\ elements = <<>> /\ waiting = 1 /\ now = 0 /\ tick = NoTick
    /\ question = NoQuestion /\ conversion = "none" /\ job = NoJob /\ solving = NotStarted
    /\ buttons = <<>> /\ md5 = <<>> /\ password = <<>> /\ code = NoCode
    /\ implicit_timeout = 0 /\ driver_wait = 0 /\ blocks = <<>>
    /\ heap = <<>> /\ cls_urls = <<>> /\ browsers = <<>>
    /\ config = NoConfig /\ browser = NoBrowser /\ requests = <<>> /\ login = NoLogin

SpecLocator == LocatorInit /\ [][LocatorNext]_vars

\* SeleniumBrowser.__init__ sets implicit_timeout to 0, the driver's default
ImplicitInit ==
    /\ implicit_timeout = 0 /\ driver_wait = 0 /\ blocks = <<>>
    /\ condition = CustomCondition("True") /\ value = "none" /\ called = 0
    /\ _urls = <<>> /\ url = "/login" /\ page = NotEvaluated /\ is_here_calls = <<>>
    /\ responses_dirname = None /\ dir_exists = FALSE /\ responses_count = 0
    /\ files = <<>> /\ wait = Idle
    /\ elements = <<>> /\ waiting = 1 /\ now = 0 /\ tick = NoTick
    /\ question = NoQuestion /\ conversion = "none" /\ job = NoJob /\ solving = NotStarted
    /\ buttons = <<>> /\ md5 = <<>> /\ password = <<>> /\ code = NoCode
    /\ built = <<>>
    /\ heap = <<>> /\ cls_urls = <<>> /\ browsers = <<>>
    /\ config = NoConfig /\ browser = NoBrowser /\ requests = <<>> /\ login = NoLogin

SpecImplicit == ImplicitInit /\ [][ImplicitNext]_vars

\* the class is defined, no session constructed yet
SessionInit ==
    /\ \E order \in CreationOrders : heap = ClassHeap(order)
    /\ cls_urls = [i \in 1..MaxAttrs |-> i]
    /\ browsers = <<>>
    /\ condition = CustomCondition("True") /\ value = "none" /\ called = 0
    /\ _urls = <<>> /\ url = "/login" /\ page = NotEvaluated /\ is_here_calls = <<>>
    /\ responses_dirname = None /\ dir_exists = FALSE /\ responses_count = 0
    /\ files = <<>> /\ wait = Idle
    /\ elements = <<>> /\ waiting = 1 /\ now = 0 /\ tick = NoTick
    /\ question = NoQuestion /\ conversion = "none" /\ job = NoJob /\ solving = NotStarted
    /\ buttons = <<>> /\ md5 = <<>> /\ password = <<>> /\ code = NoCode
    /\ built = <<>>
    /\ implicit_timeout = 0 /\ driver_wait = 0 /\ blocks = <<>>
    /\ config = NoConfig /\ browser = NoBrowser /\ requests = <<>> /\ login = NoLogin

SpecSession == SessionInit /\ [][SessionNext]_vars

\* a login browser of one of the modules, just constructed, no code configured
AuthInit ==
    /\ config = NoConfig
    /\ \E module \in Modules : browser = NewLoginBrowser(module)
    /\ requests = <<>>
    /\ login = NoLogin
    /\ condition = CustomCondition("True") /\ value = "none" /\ called = 0
    /\ _urls = <<>> /\ url = "/login" /\ page = NotEvaluated /\ is_here_calls = <<>>
    /\ responses_dirname = None /\ dir_exists = FALSE /\ responses_count = 0
    /\ files = <<>> /\ wait = Idle
    /\ elements = <<>> /\ waiting = 1 /\ now = 0 /\ tick = NoTick
    /\ question = NoQuestion /\ conversion = "none" /\ job = NoJob /\ solving = NotStarted
    /\ buttons = <<>> /\ md5 = <<>> /\ password = <<>> /\ code = NoCode
    /\ built = <<>>
    /\ implicit_timeout = 0 /\ driver_wait = 0 /\ blocks = <<>>
    /\ heap = <<>> /\ cls_urls = <<>> /\ browsers = <<>>

SpecAuth == AuthInit /\ [][AuthNext]_vars

SpecCaptcha == CaptchaInit /\ [][CaptchaNext]_vars

(***************************************************************************)
(* Page resolution: properties.                                            *)
(***************************************************************************)
PageEvaluated == page.kind # "unevaluated"
MatchingUrls == {u \in Range(_urls) : URL_match(u, url)}
CreatedBefore(a, b) == a._creation_counter < b._creation_counter
\* the is_here call the last resolution made on the page of URL u gave one of outs
IsHereGave(u, outs) ==
    \E i \in 1..Len(is_here_calls) :
        is_here_calls[i].klass = u.klass /\ is_here_calls[i].out \in outs
NotReady == {"False", NoSuchElementException}

\* C1 as stated: whenever two registered patterns A and B both match the
\* current location and A was created before B, the page resolution returns
\* is of A's type and never of B's, i.e. the returned page always belongs to
\* the earliest-created matching pattern.
C1_FirstCreatedAlwaysWins ==
    page.kind = "page" =>
        \A a \in MatchingUrls : \A b \in MatchingUrls :
            CreatedBefore(a, b) => page.klass # b.klass

\* C1 amended: the patterns are tried in creation order, so resolution returns
\* B's page only after is_here of every earlier-created matching pattern A
\* returned false or raised NoSuchElementException in that resolution; when
\* A's page is ready it is A's page that is returned.
C1_EarlierCreatedTriedFirst ==
    /\ \A i \in 1..Len(is_here_calls) : \A j \in 1..Len(is_here_calls) :
            i < j => is_here_calls[i].klass < is_here_calls[j].klass
    /\ page.kind = "page" =>
            \A a \in MatchingUrls : \A b \in MatchingUrls :
                (CreatedBefore(a, b) /\ page.klass = b.klass) => IsHereGave(a, NotReady)

\* two overlapping patterns, the earlier-created one not ready, the later one returned
C1_Witness ==
    \E a \in MatchingUrls : \E b \in MatchingUrls :
        /\ CreatedBefore(a, b)
        /\ page = ReturnPage(b.klass)
        /\ IsHereGave(a, NotReady)

\* C2 as stated: when is_here of the first matching pattern (in creation
\* order) returns false, resolution yields None, whatever later patterns match.
C2_StopsAtFirstMatch ==
    \A a \in MatchingUrls :
        ((\A b \in MatchingUrls : ~CreatedBefore(b, a)) /\ IsHereGave(a, {"False"}))
            => page = ReturnNone

\* C2 amended: a matching pattern whose is_here returns false (or raises
\* NoSuchElementException) is skipped and the later-created patterns are
\* tried; resolution yields None exactly when is_here of every matching
\* pattern returned false or raised NoSuchElementException.
C2_NoneIffNoMatchingPageReady ==
    PageEvaluated =>
        (page = ReturnNone <=> \A u \in MatchingUrls : IsHereGave(u, NotReady))

\* the first matching pattern's is_here returned false and a later pattern's page came back
C2_Witness ==
    \E a \in MatchingUrls :
        /\ \A b \in MatchingUrls : ~CreatedBefore(b, a)
        /\ IsHereGave(a, {"False"})
        /\ page.kind = "page"
        /\ page.klass # a.klass

\* C3: a returned page belongs to a registered pattern that matches the
\* current location and its is_here (method or CustomCondition) evaluated to
\* true in that resolution; when no registered pattern matches, the
\* resolution returns None.
C3_ReturnedPageMatchesAndIsHere ==
    /\ page.kind = "page" =>
            \E u \in MatchingUrls :
                /\ u.klass = page.klass
                /\ IsHereGave(u, {"True"})
                /\ ~IsHereGave(u, Outcomes \ {"True"})
    /\ (PageEvaluated /\ MatchingUrls = {}) => page = ReturnNone

\* a page whose is_here is a CustomCondition was returned
C3_Witness ==
    /\ page.kind = "page"
    /\ IsCustomCondition(page.klass)
    /\ \E u \in MatchingUrls : u.klass = page.klass /\ IsHereGave(u, {"True"})

\* C31: during page resolution an is_here that raises NoSuchElementException
\* counts as "not this page": the failure never comes out of the resolution
\* and that page is not returned; an is_here raising any other failure ends
\* the resolution, which raises that very failure.
C31_OnlyAbsentIsSwallowed ==
    PageEvaluated =>
        /\ page # Raise(NoSuchElementException)
        /\ \A i \in 1..Len(is_here_calls) :
              LET c == is_here_calls[i] IN
              /\ c.out = NoSuchElementException =>
                    /\ page # ReturnPage(c.klass)
                    /\ i = Len(is_here_calls) => page = ReturnNone
              /\ c.out \in OtherFailures =>
                    (page = Raise(c.out) /\ i = Len(is_here_calls))
        /\ page.kind = "raise" =>
              /\ is_here_calls # <<>>
              /\ page.exc = is_here_calls[Len(is_here_calls)].out

\* one is_here raised NoSuchElementException, the next another failure
C31_Witness ==
    /\ Len(is_here_calls) >= 2
    /\ is_here_calls[1].out = NoSuchElementException
    /\ is_here_calls[Len(is_here_calls)].out \in OtherFailures
    /\ page.kind = "raise"

(***************************************************************************)
(* Condition engine: properties.  Arg(i) is the i-th condition handed to   *)
(* the constructor of the condition under evaluation, ArgOutcome(i) what   *)
(* calling it yields.                                                      *)
(***************************************************************************)
Evaluated == value # "none"
NArgs == Len(condition.conditions)
Arg(i) ==
    IF condition.op = "wrap" THEN condition.conditions[i]
    ELSE condition.conditions[i].conditions[1]
ArgOutcome(i) == Call(Arg(i))
Wrapping == {"wrap", "any", "all"}

\* C4: a condition that raises a failure other than NoSuchElementException,
\* when it is evaluated through WrapException, AnyCondition or AllCondition,
\* makes that call raise the very same failure; the failure is never turned
\* into True or False, and no other failure is raised in its place.
C4_OtherFailurePropagates ==
    (Evaluated /\ condition.op \in Wrapping) =>
        /\ \A i \in 1..called : ArgOutcome(i) \in OtherFailures => value = ArgOutcome(i)
        /\ IsRaise(value) => (called >= 1 /\ value = ArgOutcome(called))

\* a second argument raising another failure was reached and its failure came out
C4_Witness ==
    /\ Evaluated
    /\ condition.op \in {"any", "all"}
    /\ called = 2
    /\ ArgOutcome(2) \in OtherFailures
    /\ value = ArgOutcome(2)

\* C5: a condition raising NoSuchElementException evaluates to False under
\* WrapException and counts as a false child of AnyCondition (the following
\* children are still tried) and of AllCondition (which is then False); the
\* failure never escapes any of the three.
C5_AbsentCountsAsFalse ==
    (Evaluated /\ condition.op \in Wrapping) =>
        /\ value # NoSuchElementException
        /\ \A i \in 1..called :
              ArgOutcome(i) = NoSuchElementException =>
                CASE condition.op = "wrap" -> value = "False"
                  [] condition.op = "any" -> i < called \/ (i = NArgs /\ value = "False")
                  [] condition.op = "all" -> i = called /\ value = "False"

\* an AnyCondition went past a child raising NoSuchElementException
C5_Witness ==
    /\ Evaluated
    /\ condition.op = "any"
    /\ called = 2
    /\ ArgOutcome(1) = NoSuchElementException
    /\ value = "True"

\* C6 as stated: each evaluation of AnyCondition evaluates every one of its
\* children, also those after a child that returned true.
C6_AnyEvaluatesEveryChild ==
    (Evaluated /\ condition.op = "any") => called = NArgs

\* the children an AnyCondition call stops at: one returning True or raising
\* another failure than NoSuchElementException
Stops(i) == ArgOutcome(i) = "True" \/ ArgOutcome(i) \in OtherFailures

\* C6 amended: AnyCondition evaluates its children in order and stops at the
\* first child that returns true (or raises a failure other than
\* NoSuchElementException); the children after it are not evaluated, and all
\* children are evaluated only when none but the last stops the evaluation.
C6_AnyShortCircuits ==
    (Evaluated /\ condition.op = "any") =>
        /\ \A i \in 1..NArgs : (Stops(i) /\ \A j \in 1..(i - 1) : ~Stops(j)) => called = i
        /\ (\A i \in 1..NArgs : ~Stops(i)) => called = NArgs

\* a child after one that returned true was left unevaluated
C6_Witness ==
    /\ Evaluated
    /\ condition.op = "any"
    /\ NArgs = 2
    /\ ArgOutcome(1) = "True"
    /\ called = 1

\* C7: with children that return plain booleans, AnyCondition is True iff
\* some child is True and AllCondition is True iff every child is True, and
\* otherwise False, for any number of children: AnyCondition() is False and
\* AllCondition() is True.
C7_AnyAllTruthTables ==
    (Evaluated /\ condition.op \in {"any", "all"}
        /\ \A i \in 1..NArgs : ArgOutcome(i) \in Booleans) =>
        /\ value \in Booleans
        /\ condition.op = "any" => (value = "True" <=> \E i \in 1..NArgs : ArgOutcome(i) = "True")
        /\ condition.op = "all" => (value = "True" <=> \A i \in 1..NArgs : ArgOutcome(i) = "True")

\* AllCondition(t, f) evaluated to False
C7_Witness ==
    /\ Evaluated
    /\ condition.op = "all"
    /\ NArgs = 2
    /\ ArgOutcome(1) = "True"
    /\ ArgOutcome(2) = "False"
    /\ value = "False"

\* C8: NotCondition returns the negation of its child's result; a child that
\* raises NoSuchElementException makes it return True, and a child raising
\* any other failure makes it raise that failure.
C8_NotNegates ==
    (Evaluated /\ condition.op = "not") =>
        CASE ArgOutcome(1) = "True" -> value = "False"
          [] ArgOutcome(1) = "False" -> value = "True"
          [] ArgOutcome(1) = NoSuchElementException -> value = "True"
          [] OTHER -> value = ArgOutcome(1)

\* a NotCondition over a child raising NoSuchElementException returned True
C8_Witness ==
    /\ Evaluated
    /\ condition.op = "not"
    /\ ArgOutcome(1) = NoSuchElementException
    /\ value = "True"

(***************************************************************************)
(* Poller and response dumps: properties.                                  *)
(***************************************************************************)
WaitDone == wait.kind \in {"return", "raise"}
\* what the last wait_until call wrote
Written == SubSeq(files, wait.before + 1, Len(files))
IsDump(f) == f.ext = "html"
IsScreenshot(f) == f.ext = "png"
\* the condition was false, or its element absent, at every poll of the call
NeverTrue == \A i \in 1..Len(wait.polls) : wait.polls[i] \in NotReady
\* the condition became true at some poll, false or absent before it
TrueInTime ==
    \E i \in 1..Len(wait.polls) :
        wait.polls[i] = "True" /\ \A j \in 1..(i - 1) : wait.polls[j] \in NotReady

\* C9 as stated: when the condition never becomes true within the timeout,
\* wait_until raises the timeout error after writing the document dump, and
\* the screenshot too when a responses directory is configured; when the
\* condition becomes true in time it returns and writes nothing.
C9_TimeoutAlwaysWritesDump ==
    WaitDone =>
        /\ NeverTrue =>
              /\ wait.kind = "raise" /\ wait.exc = TimeoutException
              /\ \E i \in 1..Len(Written) : IsDump(Written[i])
              /\ responses_dirname # None => \E i \in 1..Len(Written) : IsScreenshot(Written[i])
        /\ TrueInTime => (wait.kind = "return" /\ Written = <<>>)

\* C9 amended: when the condition is false (or its element absent) at every
\* poll until the timeout, wait_until never returns normally but raises the
\* timeout error; before the error propagates it writes, only when a
\* responses directory is configured, the document dump, preceded by the
\* screenshot when that directory already exists; with no responses
\* directory configured it writes nothing.  When the condition becomes true
\* in time, wait_until returns without writing any artifact.
C9_TimeoutDumpsWhenConfigured ==
    WaitDone =>
        /\ NeverTrue =>
              /\ wait.kind = "raise" /\ wait.exc = TimeoutException
              /\ responses_dirname = None => Written = <<>>
              /\ (responses_dirname # None /\ wait.isdir) =>
                    (Len(Written) = 2 /\ IsScreenshot(Written[1]) /\ IsDump(Written[2]))
              /\ (responses_dirname # None /\ ~wait.isdir) =>
                    (Len(Written) = 1 /\ IsDump(Written[1]))
        /\ TrueInTime => (wait.kind = "return" /\ Written = <<>>)

\* a wait timed out with a responses directory configured and left its dump
C9_Witness ==
    /\ wait.kind = "raise"
    /\ wait.exc = TimeoutException
    /\ NeverTrue
    /\ Len(wait.polls) > 1
    /\ responses_dirname # None
    /\ Len(Written) = 2

\* the number a '%02d' string reads as
RECURSIVE Number(_)
Number(ds) ==
    IF ds = <<>> THEN 0 ELSE 10 * Number(SubSeq(ds, 1, Len(ds) - 1)) + ds[Len(ds)]

Dumps == SelectSeq(files, IsDump)

\* C10: the n-th document dump a session writes is numbered n and
\* responses_count equals the number of dumps written so far (it starts at 0
\* and grows by one per dump), so no number is used twice; with no responses
\* directory configured nothing is written and the counter stays 0.
C10_DumpsNumberedSequentially ==
    /\ responses_count = Len(Dumps)
    /\ \A n \in 1..Len(Dumps) : Number(Dumps[n].number) = n
    /\ \A m \in 1..Len(Dumps) : \A n \in 1..Len(Dumps) :
            m # n => Dumps[m].number # Dumps[n].number
    /\ responses_dirname = None => (files = <<>> /\ responses_count = 0)

\* a session that has written a second dump
C10_Witness ==
    /\ Len(Dumps) >= 2
    /\ responses_count = Len(Dumps)
    /\ Dumps[2].number = <<0, 2>>

\* the dumps written before the last wait_until call
EarlierDumps == SelectSeq(SubSeq(files, 1, wait.before), IsDump)

\* C33: when a wait times out with a responses directory configured, the
\* screenshot and the document dump written for that timeout carry the same
\* number, and the screenshot does not carry the number of an earlier dump.
C33_ScreenshotNumberedAsItsDump ==
    (WaitDone /\ wait.kind = "raise" /\ responses_dirname # None /\ Len(Written) = 2) =>
        /\ IsScreenshot(Written[1]) /\ IsDump(Written[2])
        /\ Written[1].number = Written[2].number
        /\ \A n \in 1..Len(EarlierDumps) : EarlierDumps[n].number # Written[1].number

(***************************************************************************)
(* Properties of StablePageCondition (SpecStable).  Every step of          *)
(* SpecStable is a tick: the unprimed variables are the table before it,   *)
(* the primed ones the table, the clock and the result after it.           *)
(***************************************************************************)
Ticked == tick # NoTick

Tracked == DOMAIN elements

\* the time and the hash recorded for a tracked root
RecordedTime(r) == elements[r][1]
RecordedHash(r) == elements[r][2]

\* the longest a record is kept
Window == purge_times * waiting

\* C11: a tick returns true only if the root it observes was already tracked
\* with the hash it observes now, recorded at least `waiting` seconds
\* earlier.  The first observation of a root returns false, a tick that
\* observes a changed hash returns false and records the change, and a tick
\* less than `waiting` seconds after the record was made returns false.
C11_TrueOnlyAfterWaitingUnchanged ==
    [][ LET r == tick'.root IN
        /\ tick'.result = "True" =>
                /\ r \in Tracked
                /\ RecordedHash(r) = tick'.hash
                /\ now' - RecordedTime(r) >= waiting
        /\ r \notin DOMAIN tick.seen => tick'.result = "False"
        /\ (r \in Tracked /\ RecordedHash(r) # tick'.hash) =>
                /\ tick'.result = "False"
                /\ elements'[r] = <<now', tick'.hash>>
        /\ (r \in Tracked /\ now' - RecordedTime(r) < waiting) =>
                tick'.result = "False"
      ]_vars

C11_Witness ==
    /\ Ticked
    /\ tick.result = "True"
    /\ RecordedHash(tick.root) = tick.hash
    /\ now - RecordedTime(tick.root) >= waiting
    /\ Cardinality(DOMAIN tick.seen) = 2

\* C12: when every tick so far observed the same root with the same hash, a
\* tick made at least `waiting` seconds after the first of them returns true.
C12_SteadyRootTrueAfterWaiting ==
    (Ticked /\ tick.steady /\ now - tick.first >= waiting)
        => tick.result = "True"

\* C32: after a tick returned true for a root, the next tick, made on the
\* same root with the same hash no later than `waiting` seconds after it,
\* returns true as well, and the root's record is the one it had: the root
\* was not evicted.
C32_TrueStaysTrueWhileObserved ==
    [][(/\ tick.result = "True"
        /\ tick'.root = tick.root
        /\ tick'.hash = tick.hash
        /\ now' - now <= waiting)
            => (/\ tick'.result = "True"
                /\ tick.root \in DOMAIN elements'
                /\ elements'[tick.root] = elements[tick.root])]_vars

\* C13: a tracked root last observed more than purge_times * waiting seconds
\* before a tick has its record removed by that tick: after a tick on
\* another root it is not tracked, and after a tick on that root itself the
\* only record is the one this tick made as for a first observation.
C13_UnobservedRootEvicted ==
    [][ \A r \in Tracked :
            now' - tick.seen[r] > Window =>
                \/ r \notin DOMAIN elements'
                \/ /\ tick'.root = r
                   /\ elements'[r] = <<now', tick'.hash>>
                   /\ tick'.result = "False"
      ]_vars

C13_Witness ==
    /\ Ticked
    /\ \E r \in DOMAIN tick.seen :
        /\ r # tick.root
        /\ now - tick.seen[r] > Window
        /\ r \notin Tracked
    /\ tick.root \in Tracked

\* C14: after every tick no record is older than purge_times * waiting
\* seconds, and there are at most as many tracked roots as roots observed
\* within that window.
C14_NoRecordOlderThanWindow ==
    Ticked =>
        /\ \A r \in Tracked : now - RecordedTime(r) <= Window
        /\ Cardinality(Tracked)
              <= Cardinality({r \in DOMAIN tick.seen : now - tick.seen[r] <= Window})

C14_Witness ==
    /\ Ticked
    /\ \E r \in Tracked : now - RecordedTime(r) = Window
    /\ \E r \in DOMAIN tick.seen : r \notin Tracked

(***************************************************************************)
(* Properties of the CAPTCHA jobs (SpecCaptcha).                           *)
(***************************************************************************)
Solved == solving.state # "none"

\* the calls solve_catpcha_blocking made on the solver: create_job, then n polls
Calls(n) == [i \in 1..(n + 1) |-> IF i = 1 THEN "create_job" ELSE "poll_job"]

Polls == Len(SelectSeq(solving.log, LAMBDA c : c = "poll_job"))

\* C15: when the job is created and the solver answers pending to the first
\* k polls and solved to the next one, with k < RETRIES, the blocking solve
\* calls create_job once, before any poll, polls exactly k + 1 times, and
\* returns the job, which then carries its solution.
C15_SolvedAfterKPendingPolls ==
    (/\ Solved
     /\ solving.script.create = "ok"
     /\ solving.script.then = "solved"
     /\ solving.script.pending < RETRIES)
    => /\ solving.log = Calls(solving.script.pending + 1)
       /\ solving.state = "returned"
       /\ solving.value = "job"
       /\ job.solution # NotLoaded

C15_Witness ==
    /\ Solved
    /\ solving.script.create = "ok"
    /\ solving.script.then = "solved"
    /\ solving.script.pending = RETRIES - 1
    /\ Polls = RETRIES
    /\ solving.value = "job"

\* C16: when the job is created and no poll within the retries reports it
\* solved, the blocking solve ends after exactly RETRIES polls, returns
\* (None) without raising, and the job is left without a solution.
C16_GivesUpAfterRetries ==
    (/\ Solved
     /\ solving.script.create = "ok"
     /\ solving.script.pending >= RETRIES)
    => /\ solving.log = Calls(RETRIES)
       /\ solving.state = "returned"
       /\ solving.value = None
       /\ job.solution = NotLoaded

C16_Witness ==
    /\ Solved
    /\ solving.script.create = "ok"
    /\ solving.script.pending > RETRIES
    /\ Polls = RETRIES
    /\ solving.state = "returned"
    /\ solving.value = None
    /\ job.solution = NotLoaded

\* C30: when create_job raises, solve_catpcha_blocking raises that error
\* having made no poll; when a poll raises, it raises that error at once,
\* that poll being the last call made on the solver.
C30_CaptchaFailureNotRetried ==
    /\ (Solved /\ solving.script.create # "ok") =>
            /\ solving.state = "raised"
            /\ solving.exc = solving.script.create
            /\ solving.log = <<"create_job">>
    /\ (/\ Solved
        /\ solving.script.create = "ok"
        /\ solving.script.then # "solved"
        /\ solving.script.pending < RETRIES) =>
            /\ solving.state = "raised"
            /\ solving.exc = solving.script.then
            /\ solving.log = Calls(solving.script.pending + 1)

C30_Witness ==
    /\ Solved
    /\ solving.script.create = "ok"
    /\ solving.script.pending = 2
    /\ solving.exc = "UnsolvableCaptcha"
    /\ Polls = 3

Converted == conversion # "none"

\* C17: exception_to_job turns an image question into an image job with the
\* same image bytes, a Recaptcha or Nocaptcha question into the job of the
\* same variant with the same site URL and site key, and for any other
\* exception raises NotImplementedError and gives no job.
C17_QuestionBecomesMatchingJob ==
    Converted =>
        CASE question.class = "ImageCaptchaQuestion" ->
                /\ conversion = "returned"
                /\ job.class = "ImageCaptchaJob"
                /\ job.image = question.image_data
          [] question.class = "RecaptchaQuestion" ->
                /\ conversion = "returned"
                /\ job.class = "RecaptchaJob"
                /\ job.site_url = question.website_url
                /\ job.site_key = question.website_key
          [] question.class = "NocaptchaQuestion" ->
                /\ conversion = "returned"
                /\ job.class = "NocaptchaJob"
                /\ job.site_url = question.website_url
                /\ job.site_key = question.website_key
          [] OTHER ->
                /\ conversion = "NotImplementedError"
                /\ job = NoJob

C17_Witness ==
    /\ Converted
    /\ question.class = "NocaptchaQuestion"
    /\ job.class = "NocaptchaJob"
    /\ job.site_url = question.website_url
    /\ job.site_url \in SiteUrls

(***************************************************************************)
(* Properties of the virtual keypad (SpecKeypad).                          *)
(***************************************************************************)
GotCode == code # NoCode

Registered == {symbols[d] : d \in DOMAIN symbols}

\* the buttons (by place) showing the registered fingerprint of character d
ButtonsShowing(d) ==
    {i \in 1..Len(buttons) : d \in DOMAIN symbols /\ buttons[i].coord = symbols[d]}

KeyShowing(d) == buttons[CHOOSE i \in ButtonsShowing(d) : TRUE].key

\* the keys of the password's characters joined by '|'
Joined ==
    [j \in 1..(IF password = <<>> THEN 0 ELSE 2 * Len(password) - 1) |->
        IF j % 2 = 1 THEN KeyShowing(password[(j + 1) \div 2]) ELSE "|"]

\* C18: when every character of the password is a digit shown by exactly one
\* button, get_code returns the keys of those buttons in the password's
\* order, one per character, joined by '|', wherever the buttons stand.
C18_CodeIsKeysInPasswordOrder ==
    (GotCode /\ \A i \in 1..Len(password) :
                    Cardinality(ButtonsShowing(password[i])) = 1)
        => /\ code.state = "returned"
           /\ code.value = Joined

C18_Witness ==
    /\ GotCode
    /\ \A d \in ShownDigits : Cardinality(ButtonsShowing(d)) = 1
    /\ Len(password) = 2
    /\ \E i, j \in 1..Len(buttons) :
        /\ i > j
        /\ ButtonsShowing(password[1]) = {i}
        /\ ButtonsShowing(password[2]) = {j}
    /\ code.value = <<KeyShowing(password[1]), "|", KeyShowing(password[2])>>

\* C19: when some character of the password is no registered symbol, or is
\* one whose fingerprint no button shows, get_code raises VirtKeyboardError
\* and returns no code, wherever that character stands.
C19_UnknownCharacterRaises ==
    (GotCode /\ \E i \in 1..Len(password) : ButtonsShowing(password[i]) = {})
        => /\ code.state = "raised"
           /\ code.exc = "VirtKeyboardError"
           /\ code.value = <<>>

C19_Witness ==
    /\ GotCode
    /\ Len(password) = 2
    /\ Cardinality(ButtonsShowing(password[1])) = 1
    /\ password[2] \in DOMAIN symbols
    /\ ButtonsShowing(password[2]) = {}
    /\ code.state = "raised"

\* C20 as stated: the mapping has entries only for registered digit
\* fingerprints, and a button whose fingerprint is no registered digit adds
\* no entry.
C20_OnlyRegisteredFingerprintsMapped ==
    /\ DOMAIN md5 \subseteq Registered
    /\ \A i \in 1..Len(buttons) :
            buttons[i].coord \notin Registered => buttons[i].coord \notin DOMAIN md5

\* C20, amended: the mapping has one entry for every fingerprint found on a
\* button whose image is not blank, registered or not, holding the key of
\* the last such button; only blank buttons add no entry.  A returned code
\* holds only keys of buttons showing the password's registered digits.
C20_EveryNonBlankFingerprintMapped ==
    /\ DOMAIN md5 = {buttons[i].coord : i \in 1..Len(buttons)} \ {Blank}
    /\ \A k \in DOMAIN md5 :
        \E i \in 1..Len(buttons) :
            /\ buttons[i].coord = k
            /\ md5[k] = buttons[i].key
            /\ \A j \in (i + 1)..Len(buttons) : buttons[j].coord # k
    /\ (GotCode /\ code.state = "returned") =>
            \A i \in 1..Len(password) :
                \E b \in ButtonsShowing(password[i]) :
                    code.value[2 * i - 1] = buttons[b].key

C20_Witness ==
    /\ GotCode
    /\ code.state = "returned"
    /\ password # <<>>
    /\ Unregistered \in DOMAIN md5
    /\ \E i \in 1..Len(buttons) : buttons[i].coord = Blank

(***************************************************************************)
(* Properties of the locator conditions (SpecLocator).                     *)
(***************************************************************************)
\* the locator the built condition tests
Locator(c) == c.conditions[1].locator

HasText == {i \in DOMAIN built : built[i].builder = "HasTextCondition"}

\* C29: a condition built by HasTextCondition tests a locator made from the
\* xpath it was given, so two of them built from different xpaths test
\* different locators.
C29_DifferentXPathsDifferentLocators ==
    \A i, j \in HasText :
        built[i].xpath # built[j].xpath =>
            Locator(built[i].condition) # Locator(built[j].condition)

(***************************************************************************)
(* Properties of the implicit wait (SpecImplicit).                         *)
(***************************************************************************)
\* C27: while an implicit_wait(t) block is the innermost open one the
\* driver's implicit wait is t, and when a block ends the driver's implicit
\* wait is the value it had just before that block; for nested blocks and
\* with pages resolved inside a block too.
C27_BlockSetsAndRestoresWait ==
    [][ /\ blocks' # <<>> => driver_wait' = blocks'[Len(blocks')].timeout
        /\ Len(blocks') < Len(blocks) => driver_wait' = blocks[Len(blocks)].before
      ]_vars

(***************************************************************************)
(* Properties of the sessions (SpecSession).                               *)
(***************************************************************************)
\* the URL objects of the class, and of a session
ClassUrls == Range(cls_urls)
UrlsOf(b) == Range(browsers[b]._urls)

\* C28: every session has its own URL objects, one for each pattern of the
\* class, distinct from the class's and from those of the other sessions and
\* bound to that session; and no step (a session constructed, a page
\* resolved) changes the pattern list of a session that existed before it,
\* any object of such a list, the class's list or any object of the class.
C28_SessionsOwnTheirPatterns ==
    [][ /\ \A b \in DOMAIN browsers' :
            /\ Len(browsers'[b]._urls) = Len(cls_urls')
            /\ \A id \in Range(browsers'[b]._urls) :
                /\ heap'[id].browser = b
                /\ id \notin Range(cls_urls')
                /\ \A c \in DOMAIN browsers' \ {b} : id \notin Range(browsers'[c]._urls)
        /\ \A b \in DOMAIN browsers :
            /\ browsers'[b]._urls = browsers[b]._urls
            /\ \A id \in UrlsOf(b) : heap'[id] = heap[id]
        /\ cls_urls' = cls_urls
        /\ \A id \in ClassUrls : heap'[id] = heap[id]
      ]_vars

C28_Witness ==
    /\ DOMAIN browsers = Sessions
    /\ \A b \in Sessions : browsers[b].page.kind = "page"
    /\ \A b \in Sessions : \A id \in UrlsOf(b) : heap[id].browser = b
    /\ \E b \in Sessions : browsers[b]._urls # browsers[b].attrs

(***************************************************************************)
(* Properties of the login flows                                           *)
(***************************************************************************)
\* the last call was OVH do_login with a code configured and a prepared form
\* in the state fields
OvhResumed ==
    /\ browser.module = "ovh"
    /\ login.call = "do_login"
    /\ login.code # None
    /\ login.form # NoForm

FreshStart(reqs) ==
    \E i \in 1..Len(reqs) : reqs[i].what \in {"login page", "credentials"}

\* C21: resuming a suspended OVH login with the code makes exactly one
\* request, the POST of the prepared form with the code added, to the URL
\* the browser is on; the login page is not fetched and the credentials are
\* not posted in that call.
C21_ResumeSubmitsPreparedFormOnce ==
    OvhResumed =>
        /\ requests = <<Request("POST", login.url, "security form",
                                [login.form EXCEPT !.emailCode = login.code])>>
        /\ ~FreshStart(requests)

C21_Witness ==
    /\ OvhResumed
    /\ login.state = "returned"
    /\ Len(requests) = 1

\* the last call resumed a login with a code although the state it needs
\* was gone: the prepared form (OVH), the login page position (S2E)
ResumedExpired ==
    /\ login.call = "do_login"
    /\ login.code # None
    /\ \/ browser.module = "ovh" /\ login.form = NoForm
       \/ browser.module = "s2e" /\ login.url # S2eLogin

\* the exceptions that mean something other than "expired, restart required"
OtherErrors ==
    {"none", "TypeError", "BrowserIncorrectPassword", "BrowserQuestion", "BrowserBanned",
     "BrowserAuthenticationCodeMaxLimit", "ActionNeeded"}

\* C22: resuming a login whose flow state has expired raises an error of its
\* own kind, sends nothing and does not start the flow again.
C22_ExpiredResumeRaisesExpiryError ==
    ResumedExpired =>
        /\ login.state = "raised"
        /\ login.exc \notin OtherErrors
        /\ requests = <<>>

\* C23: whenever OVH do_login raises BrowserQuestion, otp_form holds the
\* security form of the page and otp_url the URL the browser stopped on, and
\* the question carries the single field pin_code.
C23_QuestionAfterStateStored ==
    (browser.module = "ovh" /\ login.call = "do_login" /\ login.exc = "BrowserQuestion") =>
        /\ browser.otp_form = [token |-> login.site.token, emailCode |-> None]
        /\ browser.otp_url = login.site.url_after
        /\ browser.otp_url = browser.url
        /\ login.fields = <<"pin_code">>

C23_Witness ==
    /\ browser.module = "ovh"
    /\ login.call = "do_login"
    /\ login.exc = "BrowserQuestion"
    /\ login.form = NoForm
    /\ browser.otp_url = OvhSecurity

AuthErrors == {"BrowserIncorrectPassword", "BrowserQuestion", "BrowserBanned"}

\* C34: on OVH resumption the prepared form is submitted to the URL recorded
\* when the login suspended (otp_url), wherever the browser is when it resumes.
C34_ResumeSubmitsToRecordedUrl ==
    (OvhResumed /\ requests # <<>>) =>
        /\ requests[1].what = "security form"
        /\ requests[1].url = browser.otp_url

\* C24 as stated: a handler for BrowserIncorrectPassword catches neither
\* BrowserQuestion nor BrowserBanned.
C24_HandlerForWrongCredentialsCatchesOnlyThose ==
    (login.state = "raised" /\ login.handler = "BrowserIncorrectPassword"
        /\ login.exc \in {"BrowserQuestion", "BrowserBanned"}) => ~login.caught

\* C24 amended: BrowserQuestion and BrowserBanned are kinds of
\* BrowserIncorrectPassword.  A handler for one of the two catches that one
\* only, and a handler for BrowserIncorrectPassword catches all three.
C24_SpecificHandlersAreExact ==
    (login.state = "raised" /\ login.exc \in AuthErrors) =>
        (login.caught <=> login.handler \in {login.exc, "BrowserIncorrectPassword"})

C24_Witness ==
    /\ login.state = "raised"
    /\ login.call = "do_login"
    /\ login.exc = "BrowserQuestion"
    /\ login.handler = "BrowserIncorrectPassword"
    /\ login.caught

\* C25: when the Boursorama SMS page shows that the daily limit of codes is
\* reached, the SMS step raises BrowserAuthenticationCodeMaxLimit.
C25_DailyLimitRaisesMaxLimit ==
    (login.call \in {"sms_first_step", "sms_second_step"}
        /\ login.site.error = MaxLimitMessage) =>
        login.exc = "BrowserAuthenticationCodeMaxLimit"

\* C35: sms_second_step never returns normally.  When the page shows a form
\* error it raises with the session's flow token as it was and nothing
\* submitted; otherwise it stores the form's flow token in the session,
\* submits the form once and raises BrowserQuestion with the single field
\* pin_code.
C35_SecondStepAlwaysRaises ==
    [][login'.call = "sms_second_step" =>
        /\ login'.state = "raised"
        /\ IF login'.site.error # ""
           THEN /\ login'.exc = "BrowserIncorrectPassword"
                /\ browser'.auth_token = browser.auth_token
                /\ requests' = <<>>
           ELSE /\ login'.exc = "BrowserQuestion"
                /\ login'.fields = <<"pin_code">>
                /\ browser'.auth_token = login'.site.token
                /\ requests' = <<Request("POST", browser.url, "sms form", NoForm)>>]_vars

\* a form error shown to a session that holds a token from an earlier step
C35_Witness ==
    /\ login.call = "sms_second_step"
    /\ login.exc = "BrowserIncorrectPassword"
    /\ browser.auth_token # None
    /\ requests = <<>>

S2eCalled == browser.module = "s2e" /\ login.call = "do_login"
Sent(what) == \E i \in 1..Len(requests) : requests[i].what = what
\* the call was made with a code configured and the browser on the login page
CodeOnLoginPage == login.code # None /\ login.url = S2eLogin
FreshLogin ==
    <<Request("GET", S2eLogin, "login page", NoForm),
      Request("POST", S2eLogin, "credentials", NoForm)>>

\* C37 as stated: one call of S2E do_login submits exactly one of the
\* one-time code (only with a code configured and the browser on the login
\* page) and the credentials through a fresh start; never both.
C37_ExactlyOneSubmission ==
    S2eCalled =>
        /\ Sent("otp") # Sent("credentials")
        /\ Sent("otp") <=> CodeOnLoginPage
        /\ Sent("credentials") => requests = FreshLogin

\* C37 amended: one call submits at most one of the two, never both.  With
\* a code configured and the browser on the login page it submits the code
\* and no credentials, unless check_error raises first, and then it submits
\* nothing; in every other case it starts the flow again from the login
\* page and submits the credentials, and no code.
C37_CodeOrCredentialsNeverBoth ==
    S2eCalled =>
        /\ ~(Sent("otp") /\ Sent("credentials"))
        /\ Sent("otp") => CodeOnLoginPage
        /\ CodeOnLoginPage =>
              IF login.site.check = "ok"
              THEN requests = <<Request("POST", S2eLogin, "otp", NoForm)>>
              ELSE requests = <<>> /\ login.state = "raised" /\ login.exc = login.site.check
        /\ ~CodeOnLoginPage => requests = FreshLogin

\* a code was configured but the browser had left the login page: fresh start
C37_Witness ==
    /\ S2eCalled
    /\ login.code # None
    /\ login.url # S2eLogin
    /\ requests = FreshLogin

\* the last call was Carrefour do_login and met the interstitial, not in its
\* javascript variant
CaptchaAsked ==
    /\ browser.module = "carrefour"
    /\ login.call = "do_login"
    /\ login.site.url_after = CarrefourIncapsula
    /\ ~login.site.is_javascript

\* C38: in Carrefour do_login, when the CAPTCHA interstitial is shown and is
\* not the javascript variant, NocaptchaQuestion is raised with the page's
\* site key and the login URL, and neither the login nor the password was
\* typed in that call.
C38_CaptchaAskedBeforeCredentials ==
    /\ CaptchaAsked =>
          /\ login.state = "raised"
          /\ login.exc = "NocaptchaQuestion"
          /\ login.fields = <<login.site.token, CarrefourLogin>>
    /\ (browser.module = "carrefour" /\ login.exc = "NocaptchaQuestion") =>
          (~Sent("enter_login") /\ ~Sent("enter_password"))

\* the question was raised in a call that had sent a captcha response first
C38_Witness ==
    /\ CaptchaAsked
    /\ login.exc = "NocaptchaQuestion"
    /\ login.code # None
    /\ Len(requests) = 2

\* the last call on the keypad page was LoginPage.login with `password`
LoggedIn == login.call = "login" /\ code = NoCode
Letters == UNION {TO_DIGIT[k] : k \in DOMAIN TO_DIGIT}
\* the digit a character of the password stands for
DigitOf(c) ==
    IF c \in DOMAIN symbols THEN c
    ELSE CHOOSE k \in DOMAIN TO_DIGIT : lower(c) \in TO_DIGIT[k]

\* C39: LoginPage.login with a password containing a character that is
\* neither a digit nor a letter fails with VirtKeyboardError and submits no
\* login form; for every password, the form is submitted only when every
\* character was decoded to the key of a button.
C39_UnknownCharacterIsKeyboardError ==
    LoggedIn =>
        /\ (\E i \in 1..Len(password) :
                password[i] \notin DOMAIN symbols /\ lower(password[i]) \notin Letters) =>
              /\ login.state = "raised"
              /\ login.exc = "VirtKeyboardError"
              /\ requests = <<>>
        /\ requests # <<>> =>
              /\ login.state = "returned"
              /\ \A i \in 1..Len(password) :
                    /\ password[i] \in DOMAIN symbols \/ lower(password[i]) \in Letters
                    /\ ButtonsShowing(DigitOf(password[i])) # {}

\* C26: in OVH do_login with a code, when the session is not logged in after
\* the code was submitted, BrowserIncorrectPassword is raised and the call
\* has made the one submission only: no new login with the credentials.
C26_WrongCodeNotRetried ==
    (OvhResumed /\ ~login.site.logged) =>
        /\ login.state = "raised"
        /\ login.exc = "BrowserIncorrectPassword"
        /\ Len(requests) = 1
        /\ ~FreshStart(requests)

C26_Witness ==
    /\ OvhResumed
    /\ ~login.site.logged
    /\ login.exc = "BrowserIncorrectPassword"
    /\ requests[1].what = "security form"

=============================================================================
